---- MODULE Spec2Model ----
(***************************************************************************)
(* Battery-telemetry inference pipeline of battery-ml-lambda               *)
(* (inference_pipeline.py): payload extraction and the head of             *)
(* build_features, the adaptive reconstruction threshold of                *)
(* run_inference_pipeline, classify_anomalies and get_overall_status.      *)
(*                                                                         *)
(* Numbers.  Currents, temperatures and epoch seconds are integers.        *)
(* Reconstruction errors and thresholds are fixed-point integers: one      *)
(* error unit is PctScale ticks and every reconstruction error is a whole  *)
(* number of units, so that the median and the linearly interpolated 85th  *)
(* percentile of a batch are exact integers of ticks.                      *)
(*                                                                         *)
(* Python values of a raw record are tagged records: Absent (key not in    *)
(* the dict), PyNone, Num(n), NaN, Str(s), List(seq), KV(key, value) (a    *)
(* dict with the entries "Key" and "Value").                               *)
(***************************************************************************)
EXTENDS Integers, Sequences, FiniteSets, TLC

VARIABLES
    \* build_features, record by record
    items,              \* the argument of build_features
    item_idx,           \* records of `items` the transform loop has consumed
    transformed_items,  \* the list the transform loop appends to
    bf_pc,              \* "start" | "loop" | "frame" | "done" | "raised"
    bf_result,          \* what build_features returned or raised
    \* get_overall_status
    counts_arg,         \* the argument of get_overall_status
    status_ret,         \* its return value ("" before the call)
    \* the process running run_inference_pipeline
    ae_threshold,       \* module-level global (line 143)
    config,             \* the loaded config bundle
    feature_names,      \* module-level global (lines 138-139)
    ae_ready,           \* TF_AVAILABLE and autoencoder is not None
    inv,                \* per invocation: the locals of run_inference_pipeline
    started             \* invocations started so far in this process

vars == <<items, item_idx, transformed_items, bf_pc, bf_result,
          counts_arg, status_ret,
          ae_threshold, config, feature_names, ae_ready, inv, started>>

bf_vars == <<items, item_idx, transformed_items, bf_pc, bf_result>>
st_vars == <<counts_arg, status_ret>>
pl_vars == <<ae_threshold, config, feature_names, ae_ready, inv, started>>

-----------------------------------------------------------------------------
(* Bounds of the model *)

\* longest record list handed to build_features
MaxItems == 4
\* longest batch of well-formed records handed to build_features
MaxRows == 6
\* largest severity count handed to get_overall_status
MaxCount == 6
\* invocations of run_inference_pipeline in one process
MaxInvocations == 2
\* largest reconstruction error, in error units
MaxErr == 3

-----------------------------------------------------------------------------
(* Python values *)

Absent == [k |-> "absent"]
PyNone == [k |-> "none"]
NaN == [k |-> "nan"]
Num(n) == [k |-> "num", n |-> n]
Str(s) == [k |-> "str", s |-> s]
List(seq) == [k |-> "list", v |-> seq]
KV(key, value) == [k |-> "dict", Key |-> key, Value |-> value]

\* bool(v) of a value that was read from a dict
Truthy(v) ==
    CASE v.k = "none" -> FALSE
      [] v.k = "absent" -> FALSE
      [] v.k = "num" -> v.n # 0
      [] v.k = "nan" -> TRUE
      [] v.k = "str" -> v.s # ""
      [] v.k = "list" -> Len(v.v) > 0
      [] v.k = "dict" -> v.Key # Absent \/ v.Value # Absent

\* d.get(key): None when the key is missing
DictGet(d, key) ==
    LET x == IF key = "Key" THEN d.Key ELSE d.Value
    IN IF x = Absent THEN PyNone ELSE x

\* d.get(key, default)
DictGetOr(d, key, default) ==
    LET x == IF key = "Key" THEN d.Key ELSE d.Value
    IN IF x = Absent THEN default ELSE x


-----------------------------------------------------------------------------
(* Strings: the operations build_features applies to them, on the texts    *)
(* the records of this model carry.                                        *)

\* the needles build_features looks for that occur in the text s
NeedlesIn(s) ==
    CASE s = "Current.Import" -> {"Current.Import"}
      [] s = "Current.Import.L1" -> {"Current.Import"}
      [] s = "Temperature" -> {"Temperature"}
      [] s = "Cell.Temperature" -> {"Temperature"}
      [] s = "Temperature.of.Current.Import" -> {"Current.Import", "Temperature"}
      [] OTHER -> {}

\* needle in s
Contains(needle, s) == needle \in NeedlesIn(s)

\* s.strip()
Strip(s) ==
    CASE s = " 3 " -> "3"
      [] s = " " -> ""
      [] OTHER -> s

\* float('inf'): above every finite number of the model
Infinity == 1000000
IsInf(x) == x >= Infinity

\* float(s): a number, NaN, or PyNone for ValueError
Float(s) ==
    CASE s = "0" -> Num(0)
      [] s = "1" -> Num(1)
      [] s = "3" -> Num(3)
      [] s = " 3 " -> Num(3)
      [] s = "10" -> Num(10)
      [] s = "20" -> Num(20)
      [] s = "100" -> Num(100)
      [] s = "-4" -> Num(-4)
      [] s = "60" -> Num(60)
      [] s = "75" -> Num(75)
      [] s = "85" -> Num(85)
      [] s = "nan" -> NaN
      [] s = "inf" -> Num(Infinity)
      [] OTHER -> PyNone

\* s.replace('Z', '+00:00')
ReplaceZ(s) ==
    CASE s = "1970-01-01T00:00:20Z" -> "1970-01-01T00:00:20+00:00"
      [] OTHER -> s

\* datetime.fromisoformat(s).timestamp() in milliseconds, -1 for ValueError
\* (a trailing 'Z' is no ISO offset for fromisoformat)
FromIsoFormatMillis(s) ==
    CASE s = "1970-01-01T00:00:10+00:00" -> 10000
      [] s = "1970-01-01T00:00:20+00:00" -> 20000
      [] s = "1970-01-01T00:00:30.700+00:00" -> 30700
      [] OTHER -> -1

\* lines 246-251 and 253-258: the ISO string of a timestamp field to epoch
\* seconds; PyNone when the bare except skips the record (no .replace on a
\* non-string, ValueError from fromisoformat)
IsoToEpoch(v) ==
    IF v.k # "str" THEN PyNone
    ELSE LET ms == FromIsoFormatMillis(ReplaceZ(v.s))
         IN IF ms < 0 THEN PyNone ELSE Num(ms \div 1000)

\* pd.to_numeric(column, errors="coerce") on one cell
ToNumeric(v) ==
    CASE v.k = "num" -> v
      [] v.k = "str" -> (IF Float(v.s).k = "num" THEN Float(v.s) ELSE NaN)
      [] OTHER -> NaN

-----------------------------------------------------------------------------
(* build_features: the transform loop (lines 238-303) *)

\* lines 283-288: the measurand and the value of one sampledValue entry;
\* a later field with the same Key overwrites an earlier one
RECURSIVE ScanFields(_, _, _)
ScanFields(sample, j, mv) ==
    IF j > Len(sample) THEN mv
    ELSE LET field == sample[j]
             mv2 == IF field.k # "dict" THEN mv
                    ELSE IF DictGet(field, "Key") = Str("measurand")
                         THEN [mv EXCEPT !.measurand = DictGetOr(field, "Value", Str(""))]
                    ELSE IF DictGet(field, "Key") = Str("value")
                         THEN [mv EXCEPT !.value = DictGetOr(field, "Value", Str(""))]
                    ELSE mv
         IN ScanFields(sample, j + 1, mv2)
\* ApplyMeasurement that stores NaN for a matched value that does not parse
ApplyMeasurement_NaNOnFailure(acc, mv) ==
    IF ~(Truthy(mv.measurand) /\ Truthy(mv.value)) THEN acc
    ELSE IF mv.measurand.k # "str" THEN acc
    ELSE IF Contains("Current.Import", mv.measurand.s)
         THEN IF mv.value.k = "str" /\ Float(Strip(mv.value.s)) # PyNone
              THEN [acc EXCEPT !.current_value = Float(Strip(mv.value.s))]
              ELSE [acc EXCEPT !.current_value = NaN]
    ELSE IF Contains("Temperature", mv.measurand.s)
         THEN IF mv.value.k = "str" /\ Float(Strip(mv.value.s)) # PyNone
              THEN [acc EXCEPT !.temperature_value = Float(Strip(mv.value.s))]
              ELSE [acc EXCEPT !.temperature_value = NaN]
    ELSE acc

\* lines 290-297: one sampledValue entry applied to (current_value,
\* temperature_value).  Inside the try, a measurand that is no string, a value
\* without .strip() and a ValueError of float() all end in `pass`.
ApplyMeasurement(acc, mv) ==
    IF ~(Truthy(mv.measurand) /\ Truthy(mv.value)) THEN acc
    ELSE IF mv.measurand.k # "str" THEN acc
    ELSE IF Contains("Current.Import", mv.measurand.s)
         THEN IF mv.value.k = "str" /\ Float(Strip(mv.value.s)) # PyNone
              THEN [acc EXCEPT !.current_value = Float(Strip(mv.value.s))]
              ELSE acc
    ELSE IF Contains("Temperature", mv.measurand.s)
         THEN IF mv.value.k = "str" /\ Float(Strip(mv.value.s)) # PyNone
              THEN [acc EXCEPT !.temperature_value = Float(Strip(mv.value.s))]
              ELSE acc
    ELSE acc

\* lines 279-297: for sample in sampled_values
RECURSIVE ScanSamples(_, _, _)
ScanSamples(sampled_values, j, acc) ==
    IF j > Len(sampled_values) THEN acc
    ELSE LET sample == sampled_values[j]
             acc2 == IF sample.k # "list" THEN acc
                     ELSE ApplyMeasurement(acc,
                            ScanFields(sample.v, 1,
                                       [measurand |-> PyNone, value |-> PyNone]))
         IN ScanSamples(sampled_values, j + 1, acc2)

\* lines 275-297: for meter_field in meter_value
RECURSIVE ScanMeterFields(_, _, _)
ScanMeterFields(meter_value, j, acc) ==
    IF j > Len(meter_value) THEN acc
    ELSE LET meter_field == meter_value[j]
             sampled_values == DictGetOr(meter_field, "Value", List(<<>>))
             acc2 == IF meter_field.k = "dict"
                        /\ DictGet(meter_field, "Key") = Str("sampledValue")
                        /\ sampled_values.k = "list"
                     THEN ScanSamples(sampled_values.v, 1, acc)
                     ELSE acc
         IN ScanMeterFields(meter_value, j + 1, acc2)

\* lines 269-297: for payload_item in payload; only meter_values[0] is read
RECURSIVE ScanPayload(_, _, _)
ScanPayload(payload, j, acc) ==
    IF j > Len(payload) THEN acc
    ELSE LET payload_item == payload[j]
             meter_values == DictGetOr(payload_item, "Value", List(<<>>))
             acc2 == IF payload_item.k = "dict"
                        /\ DictGet(payload_item, "Key") = Str("meterValue")
                        /\ meter_values.k = "list"
                        /\ Len(meter_values.v) > 0
                        /\ meter_values.v[1].k = "list"
                     THEN ScanMeterFields(meter_values.v[1].v, 1, acc)
                     ELSE acc
         IN ScanPayload(payload, j + 1, acc2)

\* lines 262-297: (current_value, temperature_value) of one record, PyNone
\* where nothing was extracted
ExtractMeasurements(item) ==
    LET none == [current_value |-> PyNone, temperature_value |-> PyNone]
    IN IF item.payload # Absent /\ item.payload.k = "list"
       THEN ScanPayload(item.payload.v, 1, none)
       ELSE none
\* MapTimestamp that gives a record without timestamp field the epoch 0
MapTimestamp_DefaultEpoch(item) ==
    IF item.ts # Absent THEN item.ts
    ELSE IF item.createdat # Absent
         THEN (IF IsoToEpoch(item.createdat) = PyNone THEN Absent
               ELSE IsoToEpoch(item.createdat))
    ELSE IF item.date # Absent
         THEN (IF IsoToEpoch(item.date) = PyNone THEN Absent
               ELSE IsoToEpoch(item.date))
    ELSE Num(0)

\* MapTimestamp that falls through to 'date' when 'createdat' does not parse
MapTimestamp_FallThrough(item) ==
    IF item.ts # Absent THEN item.ts
    ELSE IF item.createdat # Absent /\ IsoToEpoch(item.createdat) # PyNone
         THEN IsoToEpoch(item.createdat)
    ELSE IF item.date # Absent
         THEN (IF IsoToEpoch(item.date) = PyNone THEN Absent
               ELSE IsoToEpoch(item.date))
    ELSE Absent

\* lines 241-260: the value stored under transformed['ts']; Absent when the
\* loop `continue`s
MapTimestamp(item) ==
    IF item.ts # Absent THEN item.ts
    ELSE IF item.createdat # Absent
         THEN (IF IsoToEpoch(item.createdat) = PyNone THEN Absent
               ELSE IsoToEpoch(item.createdat))
    ELSE IF item.date # Absent
         THEN (IF IsoToEpoch(item.date) = PyNone THEN Absent
               ELSE IsoToEpoch(item.date))
    ELSE Absent

\* lines 299-300: the defaults
DefaultCurrent == 0
DefaultTemperature == 50
\* Transform that falls back to both defaults when either measurement is
\* missing
Transform_DefaultBoth(item, pos) ==
    LET ts == MapTimestamp(item)
        m == ExtractMeasurements(item)
        complete == m.current_value # PyNone /\ m.temperature_value # PyNone
        transformed ==
            [ts |-> ts,
             current |-> IF complete THEN m.current_value ELSE Num(DefaultCurrent),
             temperature |-> IF complete THEN m.temperature_value
                             ELSE Num(DefaultTemperature),
             src |-> pos]
    IN IF ts = Absent THEN Absent ELSE transformed

\* lines 239-303: one iteration of the transform loop on a mapping:
\* `transformed`, or Absent when the record is skipped.  `src` is not a key of
\* the program's dict: it tags the row with the position of its record.
Transform(item, pos) ==
    LET ts == MapTimestamp(item)
        m == ExtractMeasurements(item)
        transformed ==
            [ts |-> ts,
             current |-> IF m.current_value # PyNone THEN m.current_value
                         ELSE Num(DefaultCurrent),
             temperature |-> IF m.temperature_value # PyNone THEN m.temperature_value
                             ELSE Num(DefaultTemperature),
             src |-> pos]
    IN IF ts = Absent THEN Absent ELSE transformed

\* `'ts' in item` (line 242) on a record that is no mapping: a string or a
\* list is searched and holds none of the three names, None and numbers raise
\* TypeError
IsMapping(item) == item.kind = "dict"
MembershipRaises(item) == item.kind \in {"none", "num"}

-----------------------------------------------------------------------------
(* build_features: from the transformed rows to the sorted frame (lines   *)
(* 305-337)                                                                *)

\* line 329
min_samples_required == 3

\* lines 318-320: pd.to_numeric on the three columns of one row
NumericRow(t) ==
    [ts |-> ToNumeric(t.ts), current |-> ToNumeric(t.current),
     temperature |-> ToNumeric(t.temperature), src |-> t.src]

\* line 323: the row survives dropna
HasNoNaN(r) == r.ts # NaN /\ r.current # NaN /\ r.temperature # NaN

\* lines 310 and 323: the frame of the rows, each under its index label (the
\* RangeIndex 0..n-1 of pd.DataFrame), without the rows that hold a NaN
DropNa(rows) ==
    LET kept == SelectSeq([k \in 1..Len(rows) |-> k],
                          LAMBDA k : HasNoNaN(NumericRow(rows[k])))
    IN [a \in 1..Len(kept) |->
          LET r == NumericRow(rows[kept[a]])
          IN [idx |-> kept[a] - 1, ts |-> r.ts.n, current |-> r.current.n,
              temperature |-> r.temperature.n, src |-> r.src]]
\* ClipLower0 that leaves a negative current as it is
ClipLower0_Unclipped(x) == x

\* line 337: Series.clip(lower=0)
ClipLower0(x) == IF x < 0 THEN 0 ELSE x

\* line 334: df.sort_values("ts") sorts with the default kind, quicksort, which
\* is not stable: every ordering of the rows with ascending ts is an outcome
RECURSIVE AscendingOrders(_, _)
AscendingOrders(rows, rest) ==
    IF rest = {} THEN {<<>>}
    ELSE UNION {{<<a>> \o o : o \in AscendingOrders(rows, rest \ {a})} :
                  a \in {b \in rest : \A c \in rest : rows[b].ts <= rows[c].ts}}

SortOrders(rows) == AscendingOrders(rows, 1..Len(rows))

\* lines 334-337: sorted and clipped; every row keeps its index label
SortedClipped(rows, p) ==
    [a \in 1..Len(rows) |->
        [rows[p[a]] EXCEPT !.current = ClipLower0(rows[p[a]].current)]]
\* ResetIndex that leaves the index labels of the sorted frame
ResetIndex_KeepLabels(rows) == rows

\* line 401: reset_index(drop=True), the labels become 0..n-1 in row order
ResetIndex(rows) == [a \in 1..Len(rows) |-> [rows[a] EXCEPT !.idx = a - 1]]

\* lines 417-418: base_stats.loc[i, ...], the row under the label i; Absent
\* where no row has it (KeyError)
Loc(frame, i) ==
    IF \E a \in 1..Len(frame) : frame[a].idx = i
    THEN frame[CHOOSE a \in 1..Len(frame) : frame[a].idx = i]
    ELSE Absent

-----------------------------------------------------------------------------
(* build_features: the feature columns (lines 339-400).  A cell of the    *)
(* frame is a rational Q(n, d), the square root SqrtOf(Q(n, d)) of one,    *)
(* NaN, PosInf, NegInf, or Undetermined.                                   *)

Max(a, b) == IF a >= b THEN a ELSE b
Min(a, b) == IF a <= b THEN a ELSE b
Abs(x) == IF x < 0 THEN -x ELSE x

RECURSIVE Gcd(_, _)
Gcd(a, b) == IF b = 0 THEN a ELSE Gcd(b, a % b)

\* the float n / d, d > 0, in lowest terms
Q(n, d) ==
    LET g == Gcd(Abs(n), d)
    IN [k |-> "q", n |-> n \div g, d |-> d \div g]

PosInf == [k |-> "inf"]
NegInf == [k |-> "-inf"]
\* what pandas' window arithmetic leaves once an infinite value has entered
\* the window: inf, NaN or a number, depending on the pandas version
Undetermined == [k |-> "undetermined"]

\* line 142: int(config.get("hyperparameters", {}).get("roll_win", 5))
ROLL_WIN ==
    IF config.hyperparameters.roll_win = Absent THEN 5
    ELSE config.hyperparameters.roll_win.n
\* roll_win that ignores the number of rows
roll_win_Configured(n) == Max(2, ROLL_WIN)

\* line 355: the adaptive window of a frame of n rows
roll_win(n) == Max(2, Min(ROLL_WIN, n \div 3))

\* the columns df has at line 393
DfColumns ==
    {"ts", "current", "temperature", "ts_dt", "delta_t",
     "current_diff", "current_diff_abs", "current_pct_change",
     "temperature_diff", "temperature_diff_abs", "temperature_pct_change",
     "current_roll_mean", "current_roll_std", "current_roll_min",
     "current_roll_max", "current_deviation",
     "temperature_roll_mean", "temperature_roll_std", "temperature_roll_min",
     "temperature_roll_max", "temperature_deviation",
     "current_rate", "temperature_rate",
     "current_volatility", "temperature_volatility",
     "hour", "minute", "day_of_week", "is_weekend", "hour_sin", "hour_cos"}

\* df[col] at row i, col one of "current", "temperature"
Direct(rows, i, col) ==
    IF IsInf(rows[i][col]) THEN PosInf ELSE Q(rows[i][col], 1)

\* lines 345, 350: df[col].diff() at row i
Diff(rows, i, col) ==
    IF i = 1 THEN NaN
    ELSE IF IsInf(rows[i][col]) /\ IsInf(rows[i - 1][col]) THEN NaN
    ELSE IF IsInf(rows[i][col]) THEN PosInf
    ELSE IF IsInf(rows[i - 1][col]) THEN NegInf
    ELSE Q(rows[i][col] - rows[i - 1][col], 1)

\* the rows of the window of width w that ends at row i (min_periods=1)
Window(i, w) == Max(1, i - w + 1)..i

\* an infinite value is in row i or above it
Tainted(rows, i, col) == \E a \in 1..i : IsInf(rows[a][col])

RECURSIVE SumRows(_, _, _, _)
SumRows(rows, col, a, b) ==
    IF a > b THEN 0 ELSE rows[a][col] + SumRows(rows, col, a + 1, b)

\* lines 358, 365: df[col].rolling(w, min_periods=1).mean() at row i
RollMean(rows, i, col, w) ==
    IF Tainted(rows, i, col) THEN Undetermined
    ELSE Q(SumRows(rows, col, Max(1, i - w + 1), i), Cardinality(Window(i, w)))

\* lines 360, 367: df[col].rolling(w, min_periods=1).min() at row i
RollMin(rows, i, col, w) ==
    IF Tainted(rows, i, col) THEN Undetermined
    ELSE Q(CHOOSE m \in {rows[a][col] : a \in Window(i, w)} :
               \A a \in Window(i, w) : m <= rows[a][col], 1)

\* lines 361, 368: df[col].rolling(w, min_periods=1).max() at row i
RollMax(rows, i, col, w) ==
    IF Tainted(rows, i, col) THEN Undetermined
    ELSE Q(CHOOSE m \in {rows[a][col] : a \in Window(i, w)} :
               \A a \in Window(i, w) : m >= rows[a][col], 1)

RECURSIVE SumSquares(_, _, _, _)
SumSquares(rows, col, a, b) ==
    IF a > b THEN 0
    ELSE rows[a][col] * rows[a][col] + SumSquares(rows, col, a + 1, b)

\* the square root of the rational n / d, n > 0
SqrtOf(q) == [k |-> "sqrt", n |-> q.n, d |-> q.d]

\* lines 359, 366: df[col].rolling(w, min_periods=1).std() at row i: the
\* sample standard deviation (ddof=1), NaN for a window of one row
RollStd(rows, i, col, w) ==
    LET a == Max(1, i - w + 1)
        c == i - a + 1
        var == c * SumSquares(rows, col, a, i)
               - SumRows(rows, col, a, i) * SumRows(rows, col, a, i)
    IN IF Tainted(rows, i, col) THEN Undetermined
       ELSE IF c < 2 THEN NaN
       ELSE IF var = 0 THEN Q(0, 1)
       ELSE SqrtOf(Q(var, c * (c - 1)))

\* lines 340-341: df["ts_dt"].diff().dt.total_seconds() at row i
DeltaSeconds(rows, i) ==
    IF i = 1 THEN NaN ELSE Q(rows[i].ts - rows[i - 1].ts, 1)
\* DeltaT that keeps an elapsed time of zero
DeltaT_ZeroKept(rows, i) == DeltaSeconds(rows, i)

\* lines 340-342: df["delta_t"] at row i, a zero replaced by NaN
DeltaT(rows, i) ==
    IF DeltaSeconds(rows, i) = Q(0, 1) THEN NaN ELSE DeltaSeconds(rows, i)

\* the float division a / b of two cells (IEEE 754: x / 0 is infinite,
\* 0 / 0 is NaN, NaN propagates); the quotient of a square root and a
\* rational is kept as the pair of the two
DivCell(a, b) ==
    IF a = NaN \/ b = NaN THEN NaN
    ELSE IF a = Undetermined \/ b = Undetermined THEN Undetermined
    ELSE IF b.n = 0
    THEN (IF a \in {PosInf, NegInf} THEN a
          ELSE IF a.k = "sqrt" \/ a.n > 0 THEN PosInf
          ELSE IF a.n < 0 THEN NegInf
          ELSE NaN)
    ELSE IF a \in {PosInf, NegInf}
    THEN (IF b.n > 0 THEN a ELSE IF a = PosInf THEN NegInf ELSE PosInf)
    ELSE IF a.k = "sqrt" THEN [k |-> "quot", num |-> a, den |-> b]
    ELSE IF b.n > 0 THEN Q(a.n * b.d, a.d * b.n)
    ELSE Q(-(a.n * b.d), a.d * (-b.n))

\* lines 372-373: df[col].diff() / df["delta_t"] at row i
Rate(rows, i, col) == DivCell(Diff(rows, i, col), DeltaT(rows, i))

\* Series.pct_change() at row i: df[col] / df[col].shift(1) - 1
RawPctChange(rows, i, col) ==
    IF i = 1 THEN NaN
    ELSE LET x == rows[i][col]
             prev == rows[i - 1][col]
         IN IF IsInf(x) /\ IsInf(prev) THEN NaN
            ELSE IF IsInf(x) THEN (IF prev < 0 THEN NegInf ELSE PosInf)
            ELSE IF IsInf(prev) THEN Q(-1, 1)
            ELSE IF prev = 0
            THEN (IF x > 0 THEN PosInf ELSE IF x < 0 THEN NegInf ELSE NaN)
            ELSE IF prev > 0 THEN Q(x - prev, prev)
            ELSE Q(prev - x, -prev)

\* lines 388-390: fillna(0) on a column named in feature_names
FillNa(c) == IF c = NaN THEN Q(0, 1) ELSE c
\* ReplaceInf that leaves the infinite values
ReplaceInf_Kept(c) == c

\* lines 347, 352: .replace([np.inf, -np.inf], 0)
ReplaceInf(c) == IF c \in {PosInf, NegInf} THEN Q(0, 1) ELSE c

\* lines 347, 352: the percent-change column at row i
PctChange(rows, i, col) == FillNa(ReplaceInf(RawPctChange(rows, i, col)))
\* FixedStd over the adaptive window, with min_periods=1
FixedStd_Adaptive(rows, i, col) == RollStd(rows, i, col, roll_win(Len(rows)))

\* lines 376-377: df[col].rolling(ROLL_WIN).std() at row i; min_periods is
\* the window, so a row with fewer than ROLL_WIN rows up to it has NaN
FixedStd(rows, i, col) ==
    IF i < ROLL_WIN THEN NaN ELSE RollStd(rows, i, col, ROLL_WIN)

\* lines 376-377: .replace(0, np.nan) on the rolling mean
ReplaceZero(c) == IF c = Q(0, 1) THEN NaN ELSE c

\* lines 376-377: the volatility column at row i
Volatility(rows, i, col) ==
    DivCell(FixedStd(rows, i, col),
            ReplaceZero(RollMean(rows, i, col, roll_win(Len(rows)))))

\* the cell of column `name` at row i of the frame `rows` after line 390
Cell(rows, i, name) ==
    LET w == roll_win(Len(rows))
    IN CASE name = "current" -> FillNa(Direct(rows, i, "current"))
         [] name = "temperature" -> FillNa(Direct(rows, i, "temperature"))
         [] name = "current_diff" -> FillNa(Diff(rows, i, "current"))
         [] name = "temperature_diff" -> FillNa(Diff(rows, i, "temperature"))
         [] name = "current_roll_mean" -> FillNa(RollMean(rows, i, "current", w))
         [] name = "temperature_roll_mean" ->
                FillNa(RollMean(rows, i, "temperature", w))
         [] name = "current_roll_min" -> FillNa(RollMin(rows, i, "current", w))
         [] name = "current_roll_max" -> FillNa(RollMax(rows, i, "current", w))
         [] name = "current_roll_std" -> FillNa(RollStd(rows, i, "current", w))
         [] name = "delta_t" -> FillNa(DeltaT(rows, i))
         [] name = "current_rate" -> FillNa(Rate(rows, i, "current"))
         [] name = "temperature_rate" -> FillNa(Rate(rows, i, "temperature"))
         [] name = "current_pct_change" -> FillNa(PctChange(rows, i, "current"))
         [] name = "temperature_pct_change" ->
                FillNa(PctChange(rows, i, "temperature"))
         [] name = "current_volatility" -> FillNa(Volatility(rows, i, "current"))
         [] name = "temperature_volatility" ->
                FillNa(Volatility(rows, i, "temperature"))
\* MissingFeatures that reports the first missing name only
MissingFeatures_FirstOnly ==
    LET missing == SelectSeq(feature_names, LAMBDA c : c \notin DfColumns)
    IN IF missing = <<>> THEN <<>> ELSE <<Head(missing)>>

\* lines 394: the names of feature_names that are no column of df
MissingFeatures == SelectSeq(feature_names, LAMBDA c : c \notin DfColumns)

\* line 400: X = df[feature_names].values
FeatureMatrix(rows) ==
    [i \in 1..Len(rows) |->
        [j \in 1..Len(feature_names) |-> Cell(rows, i, feature_names[j])]]

\* what build_features raises (with the names line 395 lists) or returns
Raised(msg) == [err |-> msg, base_stats |-> <<>>, X |-> <<>>, missing |-> <<>>]
RaisedMissing(names) ==
    [err |-> "Missing required features", base_stats |-> <<>>, X |-> <<>>,
     missing |-> names]
Returned(stats) ==
    [err |-> "", base_stats |-> ResetIndex(stats), X |-> FeatureMatrix(stats),
     missing |-> <<>>]
\* FrameOutcomes without the minimum of min_samples_required rows
FrameOutcomes_NoMinimum(tr) ==
    IF tr = <<>>
    THEN {Raised("Could not extract required fields")}
    ELSE IF DropNa(tr) = <<>>
    THEN {Raised("No valid data after transformation")}
    ELSE IF MissingFeatures # <<>>
    THEN {RaisedMissing(MissingFeatures)}
    ELSE {Returned(SortedClipped(DropNa(tr), p)) : p \in SortOrders(DropNa(tr))}

\* lines 305-401: what build_features raises or returns once the transform
\* loop has ended with the rows `tr`
FrameOutcomes(tr) ==
    IF tr = <<>>
    THEN {Raised("Could not extract required fields")}
    ELSE IF DropNa(tr) = <<>>
    THEN {Raised("No valid data after transformation")}
    ELSE IF Len(DropNa(tr)) < min_samples_required
    THEN {Raised("Not enough data points to compute features")}
    ELSE IF MissingFeatures # <<>>
    THEN {RaisedMissing(MissingFeatures)}
    ELSE {Returned(SortedClipped(DropNa(tr), p)) : p \in SortOrders(DropNa(tr))}

\* lines 238-303: the rows the whole transform loop appends for `its`, from
\* record j on; <<Absent>> when a record raises TypeError
RECURSIVE TransformFrom(_, _)
TransformFrom(its, j) ==
    IF j > Len(its) THEN <<>>
    ELSE IF ~IsMapping(its[j])
         THEN (IF MembershipRaises(its[j]) THEN <<Absent>>
               ELSE TransformFrom(its, j + 1))
    ELSE LET rest == TransformFrom(its, j + 1)
         IN IF rest = <<Absent>> THEN rest
            ELSE IF Transform(its[j], j) = Absent THEN rest
            ELSE <<Transform(its[j], j)>> \o rest

\* build_features(items) as a whole: the set of its outcomes
build_features(its) ==
    IF its = <<>> THEN {Raised("No data points available")}
    ELSE IF TransformFrom(its, 1) = <<Absent>> THEN {Raised("TypeError")}
    ELSE FrameOutcomes(TransformFrom(its, 1))

-----------------------------------------------------------------------------
(* Raw records handed to build_features *)

\* one sampledValue entry: a list of Key/Value dicts
Sample(measurand, value) ==
    List(<<KV(Str("measurand"), Str(measurand)), KV(Str("value"), value),
           KV(Str("unit"), Str("A"))>>)

\* payload -> meterValue -> [ [ sampledValue -> samples ] ]
MeterValue(samples) ==
    KV(Str("meterValue"), List(<<List(<<KV(Str("sampledValue"), List(samples))>>)>>))

Payload(samples) == List(<<MeterValue(samples)>>)

Iso10 == Str("1970-01-01T00:00:10+00:00")
Iso20Z == Str("1970-01-01T00:00:20Z")
Iso30 == Str("1970-01-01T00:00:30.700+00:00")
IsoBad == Str("yesterday")

Stamp(ts, createdat, date) == [ts |-> ts, createdat |-> createdat, date |-> date]

\* the timestamp fields of a record
TsShapes ==
    {Stamp(Num(10), Absent, Absent),
     Stamp(Str("20"), Absent, Absent),
     Stamp(Str("abc"), Iso10, Absent),
     Stamp(PyNone, Absent, Iso10),
     Stamp(Num(30), IsoBad, Absent),
     Stamp(Absent, Iso10, Absent),
     Stamp(Absent, Iso20Z, Iso10),
     Stamp(Absent, IsoBad, Iso10),
     Stamp(Absent, PyNone, Iso10),
     Stamp(Absent, Absent, Iso30),
     Stamp(Absent, Absent, IsoBad),
     Stamp(Absent, Absent, Absent)}

\* sampledValue lists of a well-formed payload
SampleLists ==
    {<<Sample("Current.Import", Str("1"))>>,
     <<Sample("Temperature", Str("85"))>>,
     <<Sample("Voltage", Str("3"))>>,
     <<Sample("Current.Import", Str("3")), Sample("Temperature", Str("75"))>>,
     <<Sample("Current.Import", Str("1")), Sample("Current.Import", Str("100"))>>,
     <<Sample("Temperature", Str("75")), Sample("Voltage", Str("1")),
       Sample("Temperature", Str("85"))>>,
     <<Sample("Current.Import", Str("100")), Sample("Current.Import", Str("abc"))>>,
     <<Sample("Current.Import", Num(3)), Sample("Temperature", Str(""))>>,
     <<Sample("Current.Import", Str("abc")), Sample("Temperature", Str("75"))>>,
     <<Sample("Current.Import", Str(" 3 ")), Sample("Temperature", Str(" "))>>,
     <<Sample("Current.Import", Str("-4")), Sample("Temperature", Str("60"))>>,
     <<Sample("Current.Import", Str("nan"))>>,
     <<Sample("Current.Import.L1", Str("3")), Sample("Cell.Temperature", Str("75"))>>,
     <<Sample("Temperature.of.Current.Import", Str("85"))>>}

\* payloads that are no list, lack a level, or hold entries of the wrong type
OddPayloads ==
    {Absent,
     Str("meterValue"),
     KV(Str("meterValue"), List(<<>>)),
     List(<<>>),
     List(<<Str("x"), PyNone, MeterValue(<<Sample("Current.Import", Str("3")),
                                          Sample("Temperature", Str("75"))>>)>>),
     Payload(<<Str("x"), List(<<KV(Str("value"), Str("3"))>>),
               List(<<KV(Str("measurand"), Str("Current.Import"))>>)>>),
     List(<<KV(Str("meterValue"), List(<<>>))>>),
     List(<<KV(Str("meterValue"), List(<<Str("x")>>))>>),
     List(<<KV(Str("meterValue"), Absent)>>),
     List(<<KV(Str("meterValue"),
               List(<<List(<<KV(Str("sampledValue"), Str("x")), Str("y"),
                             KV(Str("timestamp"), Str("t"))>>),
                      List(<<KV(Str("sampledValue"),
                                List(<<Sample("Current.Import", Str("3"))>>))>>)>>))>>),
     List(<<MeterValue(<<Sample("Current.Import", Str("1"))>>),
            MeterValue(<<Sample("Current.Import", Str("3")),
                         Sample("Temperature", Str("75"))>>)>>)}

\* the payload field of a record
PayloadShapes == {Payload(sl) : sl \in SampleLists} \cup OddPayloads

Rec(t, p) ==
    [kind |-> "dict", ts |-> t.ts, createdat |-> t.createdat, date |-> t.date,
     payload |-> p]

\* records that are no mapping: None, a number, a string
NonMappings == {[kind |-> "none"], [kind |-> "num"], [kind |-> "str"]}

AllRecords == {Rec(t, p) : t \in TsShapes, p \in PayloadShapes} \cup NonMappings

FullPayload ==
    Payload(<<Sample("Current.Import", Str("3")), Sample("Temperature", Str("75"))>>)

\* the records batches of several records are made of
\* ts 10, current 3, temperature 75
RecTs10 == Rec(Stamp(Num(10), Absent, Absent), FullPayload)
\* ts 20 from createdat, two currents, no temperature
RecIso20 ==
    Rec(Stamp(Absent, Iso20Z, Absent),
        Payload(<<Sample("Current.Import", Str("1")),
                  Sample("Current.Import", Str("100"))>>))
\* ts 30 from date, negative current, temperature 85
RecDate30 ==
    Rec(Stamp(Absent, Absent, Iso30),
        Payload(<<Sample("Current.Import", Str("-4")),
                  Sample("Temperature", Str("85"))>>))
\* ts 20, no payload
RecBare20 == Rec(Stamp(Num(20), Absent, Absent), Absent)
\* createdat does not parse, date would
RecBadIso == Rec(Stamp(Absent, IsoBad, Iso10), FullPayload)
\* no timestamp field
RecNoTs == Rec(Stamp(Absent, Absent, Absent), FullPayload)
\* the current parses to NaN
RecNaN ==
    Rec(Stamp(Num(10), Absent, Absent), Payload(<<Sample("Current.Import", Str("nan"))>>))

CoreRecords ==
    {RecTs10, RecIso20, RecDate30, RecBare20, RecBadIso, RecNoTs, RecNaN}

\* those of them that yield a sample
ValidRecords == {RecTs10, RecIso20, RecDate30, RecBare20}

\* a well-formed record: epoch seconds, current and temperature as texts
Reading(ts, current, temperature) ==
    Rec(Stamp(Num(ts), Absent, Absent),
        Payload(<<Sample("Current.Import", Str(current)),
                  Sample("Temperature", Str(temperature))>>))

\* the timestamp of the j-th record of a batch: 10, 20, 20, 30, 40, ...
TsAt(j) == IF j <= 2 THEN 10 * j ELSE 10 * (j - 1)

\* the records the j-th position of a batch may hold; the second one may
\* carry an infinite current
ReadingsAt(j) ==
    {Reading(TsAt(j), "3", "75"), Reading(TsAt(j), "-4", "0")}
    \cup (IF j = 2 THEN {Reading(TsAt(j), "inf", "60")} ELSE {})
    \cup (IF j = 3 THEN {Reading(TsAt(j), "100", "85")} ELSE {})

\* nine records: the shortest batch whose third is above 2
LongBatch ==
    [j \in 1..9 |-> IF j % 3 = 0 THEN Reading(TsAt(j), "100", "60")
                    ELSE Reading(TsAt(j), "3", "75")]

Reverse(b) == [a \in 1..Len(b) |-> b[Len(b) + 1 - a]]

\* the batches of well-formed records in the order of their timestamps,
\* three lists that are not, and the batches of three and of four records
\* latest first
RECURSIVE BatchesOf(_)
BatchesOf(n) ==
    IF n = 0 THEN {<<>>}
    ELSE {Append(b, r) : b \in BatchesOf(n - 1), r \in ReadingsAt(n)}

Batches ==
    UNION {BatchesOf(n) : n \in 0..MaxRows}
    \cup {LongBatch, <<RecNoTs, RecTs10, [kind |-> "none"]>>,
          <<RecTs10, RecBare20, RecNoTs, RecTs10>>}
    \cup {Reverse(b) : b \in BatchesOf(3) \cup BatchesOf(4)}

\* the record lists build_features is called with: every single record,
\* the lists of core records, and lists of valid records with a None in
\* front of them or behind them
ItemLists ==
    {<<r>> : r \in AllRecords}
    \cup UNION {[1..n -> CoreRecords] : n \in 0..MaxItems}
    \cup UNION {{<<[kind |-> "none"]>> \o l, l \o <<[kind |-> "none"]>>} :
                  l \in UNION {[1..n -> ValidRecords] : n \in 1..(MaxItems - 1)}}

-----------------------------------------------------------------------------
(* build_features, step by step *)

BfInit ==
    /\ items \in ItemLists
    /\ item_idx = 0
    /\ transformed_items = <<>>
    /\ bf_pc = "loop"
    /\ bf_result = Raised("")

BfIdle ==
    /\ items = <<>>
    /\ item_idx = 0
    /\ transformed_items = <<>>
    /\ bf_pc = "off"
    /\ bf_result = Raised("")

\* lines 233-234
BfNoItems ==
    /\ bf_pc = "loop"
    /\ items = <<>>
    /\ bf_pc' = "raised"
    /\ bf_result' = Raised("No data points available")
    /\ UNCHANGED <<items, item_idx, transformed_items, st_vars, pl_vars>>

\* line 242 on a record that is no mapping and cannot be searched
BfRecordRaises ==
    /\ bf_pc = "loop"
    /\ item_idx < Len(items)
    /\ MembershipRaises(items[item_idx + 1])
    /\ item_idx' = item_idx + 1
    /\ bf_pc' = "raised"
    /\ bf_result' = Raised("TypeError")
    /\ UNCHANGED <<items, transformed_items, st_vars, pl_vars>>

\* lines 250-251, 257-260: continue
BfRecordSkipped ==
    /\ bf_pc = "loop"
    /\ item_idx < Len(items)
    /\ ~MembershipRaises(items[item_idx + 1])
    /\ \/ ~IsMapping(items[item_idx + 1])
       \/ /\ IsMapping(items[item_idx + 1])
          /\ Transform(items[item_idx + 1], item_idx + 1) = Absent
    /\ item_idx' = item_idx + 1
    /\ UNCHANGED <<items, transformed_items, bf_pc, bf_result, st_vars, pl_vars>>

\* lines 299-303: append
BfRecordKept ==
    /\ bf_pc = "loop"
    /\ item_idx < Len(items)
    /\ IsMapping(items[item_idx + 1])
    /\ Transform(items[item_idx + 1], item_idx + 1) # Absent
    /\ item_idx' = item_idx + 1
    /\ transformed_items' =
          Append(transformed_items, Transform(items[item_idx + 1], item_idx + 1))
    /\ UNCHANGED <<items, bf_pc, bf_result, st_vars, pl_vars>>

\* lines 305-331: the loop has ended and build_features raises
BfFrameRaises ==
    /\ bf_pc = "loop"
    /\ items # <<>>
    /\ item_idx = Len(items)
    /\ \E r \in FrameOutcomes(transformed_items) :
          /\ r.err # ""
          /\ bf_result' = r
    /\ bf_pc' = "raised"
    /\ UNCHANGED <<items, item_idx, transformed_items, st_vars, pl_vars>>

\* lines 305-404: the loop has ended and build_features returns
BfFrameReturns ==
    /\ bf_pc = "loop"
    /\ items # <<>>
    /\ item_idx = Len(items)
    /\ \E r \in FrameOutcomes(transformed_items) :
          /\ r.err = ""
          /\ bf_result' = r
    /\ bf_pc' = "done"
    /\ UNCHANGED <<items, item_idx, transformed_items, st_vars, pl_vars>>

BfNext ==
    \/ BfNoItems
    \/ BfRecordRaises
    \/ BfRecordSkipped
    \/ BfRecordKept
    \/ BfFrameRaises
    \/ BfFrameReturns

-----------------------------------------------------------------------------
(* get_overall_status (lines 446-458) *)

\* get_overall_status with the bound on highs off by one (high >= 3)
get_overall_status_HighOffByOne(counts) ==
    LET crit == counts.critical
        high == counts.high
        med == counts.medium
    IN IF crit > 0 \/ high >= 3 THEN "Immediate Action Required"
       ELSE IF high > 0 \/ med > 5 THEN "Degradation Accelerating"
       ELSE IF med > 0 THEN "Moderate Irregularities"
       ELSE "Stable"

get_overall_status(counts) ==
    LET crit == counts.critical
        high == counts.high
        med == counts.medium
    IN IF crit > 0 \/ high > 3 THEN "Immediate Action Required"
       ELSE IF high > 0 \/ med > 5 THEN "Degradation Accelerating"
       ELSE IF med > 0 THEN "Moderate Irregularities"
       ELSE "Stable"

\* line 411
ZeroCounts == [critical |-> 0, high |-> 0, medium |-> 0, low |-> 0]

StInit ==
    /\ counts_arg \in [critical : 0..MaxCount, high : 0..MaxCount,
                       medium : 0..MaxCount, low : 0..1]
    /\ status_ret = ""

StIdle ==
    /\ counts_arg = ZeroCounts
    /\ status_ret = ""

\* the call
ResolveStatus ==
    /\ status_ret = ""
    /\ status_ret' = get_overall_status(counts_arg)
    /\ UNCHANGED <<counts_arg, bf_vars, pl_vars>>

-----------------------------------------------------------------------------
(* Scores and the adaptive threshold (lines 753-786) *)

\* np.percentile(recon_errors, 85) (line 771), and the ticks of one error unit
Pct == 85
PctScale == 100

\* ascending order of a sequence of integers
RECURSIVE InsertSorted(_, _)
InsertSorted(x, s) ==
    IF s = <<>> THEN <<x>>
    ELSE IF x <= Head(s) THEN <<x>> \o s
    ELSE <<Head(s)>> \o InsertSorted(x, Tail(s))

RECURSIVE Sorted(_)
Sorted(s) == IF s = <<>> THEN <<>> ELSE InsertSorted(Head(s), Sorted(Tail(s)))

\* np.median (line 766): the middle element, or the mean of the two middle ones
Median(errs) ==
    LET s == Sorted(errs)
        n == Len(errs)
    IN IF n % 2 = 1 THEN s[(n + 1) \div 2]
       ELSE (s[n \div 2] + s[n \div 2 + 1]) \div 2

\* Percentile85 that interpolates around position 0.15 * (n - 1)
Percentile85_FromBelow(errs) ==
    LET s == Sorted(errs)
        n == Len(errs)
        pos == (PctScale - Pct) * (n - 1)
        lo == pos \div PctScale
        frac == pos % PctScale
    IN IF frac = 0 THEN s[lo + 1]
       ELSE s[lo + 1] + (frac * (s[lo + 2] - s[lo + 1])) \div PctScale

\* np.percentile(errs, 85) (line 771), linear interpolation between the two
\* order statistics around position 0.85 * (n - 1)
Percentile85(errs) ==
    LET s == Sorted(errs)
        n == Len(errs)
        pos == Pct * (n - 1)
        lo == pos \div PctScale
        frac == pos % PctScale
    IN IF frac = 0 THEN s[lo + 1]
       ELSE s[lo + 1] + (frac * (s[lo + 2] - s[lo + 1])) \div PctScale
\* AdaptiveThreshold that always takes the 85th percentile of the batch
AdaptiveThreshold_AlwaysPercentile(errs, training_threshold) == Percentile85(errs)

\* AdaptiveThreshold that measures against the configured baseline
AdaptiveThreshold_FromConfig(errs, training_threshold) ==
    LET baseline == IF config.autoencoder_threshold = Absent THEN 0
                    ELSE config.autoencoder_threshold.n
    IN IF Median(errs) > baseline * 2 THEN Percentile85(errs) ELSE baseline

\* lines 766-777: adaptive_threshold from the batch and training_threshold
AdaptiveThreshold(errs, training_threshold) ==
    IF Median(errs) > training_threshold * 2
    THEN Percentile85(errs)
    ELSE training_threshold

-----------------------------------------------------------------------------
(* classify_anomalies (lines 407-443) *)

\* dict.get(key, default) on a thresholds mapping of the config
ThrGet(d, key, default) == IF d[key] = Absent THEN default ELSE d[key].n
\* SeverityOf with exclusive thresholds (> for >=)
SeverityOf_Exclusive(curr, temp, cfg) ==
    LET temp_uc == ThrGet(cfg.temperature_thresholds, "upper_critical", 80)
        temp_uw == ThrGet(cfg.temperature_thresholds, "upper_warning", 70)
        curr_uc == ThrGet(cfg.current_thresholds, "upper_critical", 100)
        curr_uw == ThrGet(cfg.current_thresholds, "upper_warning", 2)
    IN IF temp > temp_uc \/ curr > curr_uc THEN "critical"
       ELSE IF temp > temp_uw \/ curr > curr_uw THEN "high"
       ELSE "medium"

\* SeverityOf that wants both readings in the critical range
SeverityOf_Conjunctive(curr, temp, cfg) ==
    LET temp_uc == ThrGet(cfg.temperature_thresholds, "upper_critical", 80)
        temp_uw == ThrGet(cfg.temperature_thresholds, "upper_warning", 70)
        curr_uc == ThrGet(cfg.current_thresholds, "upper_critical", 100)
        curr_uw == ThrGet(cfg.current_thresholds, "upper_warning", 2)
    IN IF temp >= temp_uc /\ curr >= curr_uc THEN "critical"
       ELSE IF temp >= temp_uw \/ curr >= curr_uw THEN "high"
       ELSE "medium"

\* lines 425-435: the severity of a sample the autoencoder flagged
SeverityOf(curr, temp, cfg) ==
    LET temp_uc == ThrGet(cfg.temperature_thresholds, "upper_critical", 80)
        temp_uw == ThrGet(cfg.temperature_thresholds, "upper_warning", 70)
        curr_uc == ThrGet(cfg.current_thresholds, "upper_critical", 100)
        curr_uw == ThrGet(cfg.current_thresholds, "upper_warning", 2)
    IN IF temp >= temp_uc \/ curr >= curr_uc THEN "critical"
       ELSE IF temp >= temp_uw \/ curr >= curr_uw THEN "high"
       ELSE "medium"
\* IsAutoAnom with an inclusive comparison (>= for >)
IsAutoAnom_Inclusive(re, threshold) == re >= threshold

\* line 421
IsAutoAnom(re, threshold) == re > threshold

\* lines 415-441: the severity appended for sample i, `threshold` being the
\* value of the global ae_threshold when the iteration reads it
ClassifySample(re, curr, temp, threshold, cfg) ==
    IF IsAutoAnom(re, threshold) THEN SeverityOf(curr, temp, cfg) ELSE "normal"

\* line 438
CountSeverity(counts, severity) ==
    IF severity = "normal" THEN counts
    ELSE [counts EXCEPT ![severity] = @ + 1]
\* ClassifyIteration in which the outlier flag alone makes a sample anomalous
ClassifyIteration_OutlierGated(re, iso_pred, curr, temp, threshold, cfg) ==
    LET iso_anom == (iso_pred = -1)
    IN IF iso_anom \/ IsAutoAnom(re, threshold)
       THEN SeverityOf(curr, temp, cfg)
       ELSE "normal"

\* lines 415-441: one iteration of the loop with the outlier flag of the
\* sample, iso_anom (line 416), which no later line of the loop reads
ClassifyIteration(re, iso_pred, curr, temp, threshold, cfg) ==
    LET iso_anom == (iso_pred = -1)
    IN ClassifySample(re, curr, temp, threshold, cfg)

\* lines 407-443: classify_anomalies as a whole, with the global ae_threshold
\* at `threshold` throughout the call
classify_anomalies(recon_errors, iso_preds, base_stats, threshold, cfg) ==
    LET severities ==
            [i \in 1..Len(recon_errors) |->
                ClassifyIteration(recon_errors[i], iso_preds[i],
                                  Loc(base_stats, i - 1).current,
                                  Loc(base_stats, i - 1).temperature,
                                  threshold, cfg)]
    IN [counts |-> [sv \in DOMAIN ZeroCounts |->
                       Cardinality({i \in 1..Len(recon_errors) :
                                       severities[i] = sv})],
        severities |-> severities]

-----------------------------------------------------------------------------
(* The process: module-level state (lines 107-145) and the invocations of  *)
(* run_inference_pipeline (lines 714-835)                                  *)

Procs == {1, 2}

\* the config bundles the process may have loaded (CONFIG_PATH, line 135);
\* autoencoder_threshold is in ticks
Thresholds(uc, uw) == [upper_critical |-> uc, upper_warning |-> uw]

Configs ==
    {[autoencoder_threshold |-> Num(PctScale),
      temperature_thresholds |-> Thresholds(Absent, Absent),
      current_thresholds |-> Thresholds(Absent, Absent),
      hyperparameters |-> [roll_win |-> Absent]],
     [autoencoder_threshold |-> Absent,
      temperature_thresholds |-> Thresholds(Num(85), Num(75)),
      current_thresholds |-> Thresholds(Absent, Num(3)),
      hyperparameters |-> [roll_win |-> Num(5)]]}

\* the feature-name lists the process may have loaded (FEATURE_NAMES_PATH,
\* lines 138-139); "soc" and "voltage" are no columns of build_features
NameLists ==
    {<<"current", "temperature", "current_diff", "current_roll_mean">>,
     <<"temperature_roll_mean", "current_roll_max", "current_roll_min",
       "temperature_diff", "current_roll_std">>,
     <<"current_rate", "temperature_rate", "delta_t", "current_pct_change",
       "temperature_pct_change", "current_volatility",
       "temperature_volatility">>,
     <<"current", "soc", "temperature">>,
     <<"voltage", "current_roll_mean", "soc">>}

DefaultNames == <<"current", "temperature", "current_diff", "current_roll_mean">>

\* line 143: float(config.get("autoencoder_threshold", 0.0))
ConfiguredThreshold(cfg) ==
    IF cfg.autoencoder_threshold = Absent THEN 0 ELSE cfg.autoencoder_threshold.n

\* the locals of an invocation that has not started
IdleInv ==
    [pc |-> "idle", stage |-> "", items |-> <<>>, base_stats |-> <<>>,
     recon_errors |-> <<>>, training_threshold |-> 0, adaptive_threshold |-> 0,
     iso_preds |-> <<>>, counts |-> ZeroCounts, severities |-> <<>>,
     status |-> ""]

PlInit(cfgs) ==
    /\ config \in cfgs
    /\ feature_names = DefaultNames
    /\ ae_threshold = ConfiguredThreshold(config)
    /\ ae_ready \in BOOLEAN
    /\ inv = [p \in Procs |-> IdleInv]
    /\ started = 0

PlIdle ==
    /\ config = CHOOSE c \in Configs : c.autoencoder_threshold # Absent
    /\ feature_names = DefaultNames
    /\ ae_threshold = ConfiguredThreshold(config)
    /\ ae_ready = TRUE
    /\ inv = [p \in Procs |-> IdleInv]
    /\ started = 0

\* RaisedIn that notes the failure and lets the invocation go on
RaisedIn_Swallowed(l, stage) == [l EXCEPT !.stage = stage]

\* the invocation raised in `stage`: the exception leaves run_inference_pipeline
RaisedIn(l, stage) == [l EXCEPT !.pc = "raised", !.stage = stage]

\* lines 722-728: no api_url and a device the config does not list
DeviceUnknown(p) ==
    /\ inv[p].pc = "idle"
    /\ started < MaxInvocations
    /\ started' = started + 1
    /\ inv' = [inv EXCEPT ![p] = RaisedIn(@, "config")]
    /\ UNCHANGED <<ae_threshold, config, feature_names, ae_ready, bf_vars, st_vars>>

\* line 742, fetch_data_from_api re-raises (lines 226-228)
FetchRaises(p) ==
    /\ inv[p].pc = "idle"
    /\ started < MaxInvocations
    /\ started' = started + 1
    /\ inv' = [inv EXCEPT ![p] = RaisedIn(@, "fetch")]
    /\ UNCHANGED <<ae_threshold, config, feature_names, ae_ready, bf_vars, st_vars>>

\* line 742, fetch_data_from_api returns a list of records
Fetch(p, batches) ==
    /\ inv[p].pc = "idle"
    /\ started < MaxInvocations
    /\ started' = started + 1
    /\ \E b \in batches :
          inv' = [inv EXCEPT ![p] = [@ EXCEPT !.pc = "fetched", !.items = b]]
    /\ UNCHANGED <<ae_threshold, config, feature_names, ae_ready, bf_vars, st_vars>>

\* line 745, build_features raises
BuildRaises(p) ==
    /\ inv[p].pc = "fetched"
    /\ \E r \in build_features(inv[p].items) :
          /\ r.err # ""
          /\ inv' = [inv EXCEPT ![p] = RaisedIn(@, "build")]
    /\ UNCHANGED <<ae_threshold, config, feature_names, ae_ready, started, bf_vars, st_vars>>

\* line 745, build_features returns
BuildReturns(p) ==
    /\ inv[p].pc = "fetched"
    /\ \E r \in build_features(inv[p].items) :
          /\ r.err = ""
          /\ inv' = [inv EXCEPT ![p] =
                        [@ EXCEPT !.pc = "built", !.base_stats = r.base_stats]]
    /\ UNCHANGED <<ae_threshold, config, feature_names, ae_ready, started, bf_vars, st_vars>>

\* lines 751-757: the scaler or the autoencoder raises
ScoreRaises(p) ==
    /\ inv[p].pc = "built"
    /\ inv' = [inv EXCEPT ![p] = RaisedIn(@, "score")]
    /\ UNCHANGED <<ae_threshold, config, feature_names, ae_ready, started, bf_vars, st_vars>>

\* lines 755-777: the reconstruction errors of the batch (any errors: the
\* autoencoder is opaque), training_threshold read from the global,
\* adaptive_threshold computed
Score(p, errs) ==
    /\ inv[p].pc = "built"
    /\ ae_ready
    /\ \E re \in [1..Len(inv[p].base_stats) -> errs] :
          inv' = [inv EXCEPT ![p] =
                    [@ EXCEPT !.pc = "scored",
                              !.recon_errors = re,
                              !.training_threshold = ae_threshold,
                              !.adaptive_threshold =
                                   AdaptiveThreshold(re, ae_threshold)]]
    /\ UNCHANGED <<ae_threshold, config, feature_names, ae_ready, started, bf_vars, st_vars>>

\* line 780: ae_threshold = adaptive_threshold
UpdateThreshold(p) ==
    /\ inv[p].pc = "scored"
    /\ ae_threshold' = inv[p].adaptive_threshold
    /\ inv' = [inv EXCEPT ![p].pc = "forest"]
    /\ UNCHANGED <<config, feature_names, ae_ready, started, bf_vars, st_vars>>

\* Degraded with ones for the reconstruction errors
Degraded_Ones(p) ==
    /\ inv[p].pc = "built"
    /\ ~ae_ready
    /\ inv' = [inv EXCEPT ![p] =
                  [@ EXCEPT !.pc = "forest",
                            !.recon_errors =
                                 [a \in 1..Len(inv[p].base_stats) |-> PctScale]]]
    /\ UNCHANGED <<ae_threshold, config, feature_names, ae_ready, started, bf_vars, st_vars>>

\* lines 784-786: no autoencoder, zeros for the reconstruction errors
Degraded(p) ==
    /\ inv[p].pc = "built"
    /\ ~ae_ready
    /\ inv' = [inv EXCEPT ![p] =
                  [@ EXCEPT !.pc = "forest",
                            !.recon_errors =
                                 [a \in 1..Len(inv[p].base_stats) |-> 0]]]
    /\ UNCHANGED <<ae_threshold, config, feature_names, ae_ready, started, bf_vars, st_vars>>

\* line 790: iso_forest.predict, +1 or -1 per sample
IsolationForest(p, preds) ==
    /\ inv[p].pc = "forest"
    /\ \E iso \in [1..Len(inv[p].base_stats) -> preds] :
          inv' = [inv EXCEPT ![p] = [@ EXCEPT !.pc = "classify", !.iso_preds = iso]]
    /\ UNCHANGED <<ae_threshold, config, feature_names, ae_ready, started, bf_vars, st_vars>>

\* lines 414-441: one iteration of the loop of classify_anomalies; it reads
\* the global ae_threshold (line 421)
ClassifyStep(p) ==
    /\ inv[p].pc = "classify"
    /\ Len(inv[p].severities) < Len(inv[p].recon_errors)
    /\ LET i == Len(inv[p].severities) + 1
           severity == ClassifyIteration(inv[p].recon_errors[i],
                                         inv[p].iso_preds[i],
                                         Loc(inv[p].base_stats, i - 1).current,
                                         Loc(inv[p].base_stats, i - 1).temperature,
                                         ae_threshold, config)
       IN inv' = [inv EXCEPT ![p] =
                     [@ EXCEPT !.severities = Append(@, severity),
                               !.counts = CountSeverity(@, severity)]]
    /\ UNCHANGED <<ae_threshold, config, feature_names, ae_ready, started, bf_vars, st_vars>>

\* lines 443 and 798: classify_anomalies returns, get_overall_status
ResolveBatch(p) ==
    /\ inv[p].pc = "classify"
    /\ Len(inv[p].severities) = Len(inv[p].recon_errors)
    /\ inv' = [inv EXCEPT ![p] =
                  [@ EXCEPT !.pc = "render",
                            !.status = get_overall_status(inv[p].counts)]]
    /\ UNCHANGED <<ae_threshold, config, feature_names, ae_ready, started, bf_vars, st_vars>>

\* line 821: generate_visualization returns
Render(p) ==
    /\ inv[p].pc = "render"
    /\ inv' = [inv EXCEPT ![p].pc = "upload"]
    /\ UNCHANGED <<ae_threshold, config, feature_names, ae_ready, started, bf_vars, st_vars>>

\* line 821: generate_visualization raises
RenderRaises(p) ==
    /\ inv[p].pc = "render"
    /\ inv' = [inv EXCEPT ![p] = RaisedIn(@, "render")]
    /\ UNCHANGED <<ae_threshold, config, feature_names, ae_ready, started, bf_vars, st_vars>>

\* line 824: upload_to_s3 returns, the result is returned (line 835)
Upload(p) ==
    /\ inv[p].pc = "upload"
    /\ inv' = [inv EXCEPT ![p].pc = "done"]
    /\ UNCHANGED <<ae_threshold, config, feature_names, ae_ready, started, bf_vars, st_vars>>

\* line 824: upload_to_s3 raises
UploadRaises(p) ==
    /\ inv[p].pc = "upload"
    /\ inv' = [inv EXCEPT ![p] = RaisedIn(@, "upload")]
    /\ UNCHANGED <<ae_threshold, config, feature_names, ae_ready, started, bf_vars, st_vars>>

\* the caller has the result or the exception; the locals are gone
Return(p) ==
    /\ inv[p].pc \in {"done", "raised"}
    /\ inv' = [inv EXCEPT ![p] = IdleInv]
    /\ UNCHANGED <<ae_threshold, config, feature_names, ae_ready, started, bf_vars, st_vars>>

-----------------------------------------------------------------------------
(* Inputs of the invocations *)

\* what fetch_data_from_api returns
FetchBatches ==
    {<<RecTs10, RecIso20, RecBare20>>,
     <<RecDate30, RecBare20, RecNoTs, RecTs10>>,
     <<RecTs10, RecBadIso>>}

\* reconstruction errors, in ticks
ErrValues == {e * PctScale : e \in 0..MaxErr}

\* the steps of invocation p
Invocation(p, batches, errs, preds) ==
    \/ DeviceUnknown(p)
    \/ FetchRaises(p)
    \/ Fetch(p, batches)
    \/ BuildRaises(p)
    \/ BuildReturns(p)
    \/ ScoreRaises(p)
    \/ Score(p, errs)
    \/ UpdateThreshold(p)
    \/ Degraded(p)
    \/ IsolationForest(p, preds)
    \/ ClassifyStep(p)
    \/ ResolveBatch(p)
    \/ Render(p)
    \/ RenderRaises(p)
    \/ Upload(p)
    \/ UploadRaises(p)
    \/ Return(p)

-----------------------------------------------------------------------------
(* Specifications *)

\* one process, its invocations of run_inference_pipeline one after another
Init == PlInit(Configs) /\ BfIdle /\ StIdle
Next == Invocation(1, FetchBatches, ErrValues, {-1, 1})
Spec == Init /\ [][Next]_vars

\* one process serving two invocations concurrently (threads of a server);
\* a step is one access to the global ae_threshold or one external call
ConcBatches == {<<RecTs10, RecIso20, RecDate30>>, <<RecTs10, RecBadIso>>}
ConcErrValues == {PctScale, 3 * PctScale}
InitConc == PlInit(Configs) /\ BfIdle /\ StIdle
NextConc == \E p \in Procs : Invocation(p, ConcBatches, ConcErrValues, {1})
SpecConc == InitConc /\ [][NextConc]_vars

\* build_features on one record list
InitExtract == BfInit /\ StIdle /\ PlIdle
NextExtract == BfNext
SpecExtract == InitExtract /\ [][NextExtract]_vars

\* build_features on batches of well-formed records, under the windows and
\* the feature-name lists the process may have loaded
RollWins == {Absent, Num(1), Num(2)}
InitFeatures ==
    /\ items \in Batches
    /\ item_idx = 0
    /\ transformed_items = <<>>
    /\ bf_pc = "loop"
    /\ bf_result = Raised("")
    /\ StIdle
    /\ \E r \in RollWins :
          config = [CHOOSE c \in Configs : c.autoencoder_threshold # Absent
                       EXCEPT !.hyperparameters = [roll_win |-> r]]
    /\ feature_names \in NameLists
    /\ ae_threshold = ConfiguredThreshold(config)
    /\ ae_ready = TRUE
    /\ inv = [p \in Procs |-> IdleInv]
    /\ started = 0
NextFeatures == BfNext
SpecFeatures == InitFeatures /\ [][NextFeatures]_vars

\* get_overall_status on one Severity Count
InitStatus == StInit /\ BfIdle /\ PlIdle
NextStatus == ResolveStatus
SpecStatus == InitStatus /\ [][NextStatus]_vars

-----------------------------------------------------------------------------
(* C1: get_overall_status is total and first-match-wins over the counts:   *)
(* "Immediate Action Required" iff critical > 0 or high > 3; otherwise     *)
(* "Degradation Accelerating" iff high > 0 or medium > 5; otherwise        *)
(* "Moderate Irregularities" iff medium > 0; otherwise "Stable".  high = 4 *)
(* alone gives "Immediate Action Required", high = 3 alone gives           *)
(* "Degradation Accelerating".                                             *)
C1_StatusFirstMatchWins ==
    status_ret # "" =>
        LET c == counts_arg
            immediate == c.critical > 0 \/ c.high > 3
            degrading == ~immediate /\ (c.high > 0 \/ c.medium > 5)
            moderate == ~immediate /\ ~degrading /\ c.medium > 0
        IN /\ (status_ret = "Immediate Action Required") <=> immediate
           /\ (status_ret = "Degradation Accelerating") <=> degrading
           /\ (status_ret = "Moderate Irregularities") <=> moderate
           /\ (status_ret = "Stable") <=> (~immediate /\ ~degrading /\ ~moderate)
           /\ c = [critical |-> 0, high |-> 4, medium |-> 0, low |-> 0]
                 => status_ret = "Immediate Action Required"
           /\ c = [critical |-> 0, high |-> 3, medium |-> 0, low |-> 0]
                 => status_ret = "Degradation Accelerating"

\* the call returned for four highs and nothing else
C1_Witness ==
    /\ counts_arg = [critical |-> 0, high |-> 4, medium |-> 0, low |-> 0]
    /\ status_ret = "Immediate Action Required"

-----------------------------------------------------------------------------
(* C2: every sample classify_anomalies treats as anomalous is critical if  *)
(* its temperature or its current is at or above the upper_critical        *)
(* threshold, else high if one is at or above the upper_warning threshold, *)
(* else medium; 'low' is never assigned and counts['low'] stays 0.         *)
C2_SeverityTiers ==
    \A p \in Procs :
        LET l == inv[p]
            temp_uc == ThrGet(config.temperature_thresholds, "upper_critical", 80)
            temp_uw == ThrGet(config.temperature_thresholds, "upper_warning", 70)
            curr_uc == ThrGet(config.current_thresholds, "upper_critical", 100)
            curr_uw == ThrGet(config.current_thresholds, "upper_warning", 2)
        IN /\ l.counts.low = 0
           /\ \A i \in 1..Len(l.severities) :
                 LET temp == l.base_stats[i].temperature
                     curr == l.base_stats[i].current
                     sev == l.severities[i]
                 IN /\ sev \in {"normal", "medium", "high", "critical"}
                    /\ sev # "normal" =>
                          /\ (sev = "critical") <=> (temp >= temp_uc \/ curr >= curr_uc)
                          /\ (sev = "high") <=>
                                /\ ~(temp >= temp_uc \/ curr >= curr_uc)
                                /\ (temp >= temp_uw \/ curr >= curr_uw)

\* a critical sample whose temperature equals upper_critical (its current is
\* below) next to a high sample whose current equals upper_warning (below
\* upper_critical in both measurements)
C2_Witness ==
    \E p \in Procs : \E i, j \in 1..Len(inv[p].severities) :
        /\ inv[p].severities[i] = "critical"
        /\ inv[p].base_stats[i].temperature =
              ThrGet(config.temperature_thresholds, "upper_critical", 80)
        /\ inv[p].base_stats[i].current <
              ThrGet(config.current_thresholds, "upper_critical", 100)
        /\ inv[p].severities[j] = "high"
        /\ inv[p].base_stats[j].current =
              ThrGet(config.current_thresholds, "upper_warning", 2)
        /\ inv[p].base_stats[j].temperature <
              ThrGet(config.temperature_thresholds, "upper_critical", 80)

-----------------------------------------------------------------------------
(* C3: sample i is anomalous iff recon_errors[i] is strictly above the     *)
(* batch's working threshold; every other sample is 'normal' and counted   *)
(* nowhere; there is one severity per sample and the four counts add up to *)
(* the number of anomalous samples.                                        *)

\* the threshold the batch of invocation p is classified against: the
\* adaptive_threshold of its scoring step, the untouched global without it
WorkingThreshold(p) ==
    IF ae_ready THEN inv[p].adaptive_threshold ELSE ae_threshold

C3_AnomalousIffAboveThreshold ==
    \A p \in Procs :
        LET l == inv[p]
            anomalous == {i \in 1..Len(l.severities) :
                             l.recon_errors[i] > WorkingThreshold(p)}
        IN /\ \A i \in 1..Len(l.severities) :
                 (l.severities[i] # "normal") <=> (i \in anomalous)
           /\ l.counts.critical + l.counts.high + l.counts.medium + l.counts.low
                 = Cardinality(anomalous)
           /\ l.pc \in {"render", "upload", "done"} =>
                 Len(l.severities) = Len(l.recon_errors)

\* classify_anomalies returned: a sample whose error equals the threshold is
\* normal, one above it is not
C3_Witness ==
    \E p \in Procs : \E i, j \in 1..Len(inv[p].severities) :
        /\ inv[p].pc = "render"
        /\ inv[p].recon_errors[i] = WorkingThreshold(p)
        /\ inv[p].severities[i] = "normal"
        /\ inv[p].recon_errors[j] > WorkingThreshold(p)
        /\ inv[p].severities[j] # "normal"

-----------------------------------------------------------------------------
(* C4: with the reconstruction model available, the threshold a batch is   *)
(* classified against is the 85th percentile of the batch's errors when    *)
(* the batch median M satisfies M > 2 x T0, and T0 otherwise (M = 2 x T0   *)
(* included), T0 being the configured baseline (config                     *)
(* autoencoder_threshold).                                                 *)
C4_ThresholdFromConfiguredBaseline ==
    \A p \in Procs :
        (ae_ready /\ inv[p].pc = "classify") =>
            LET T0 == ConfiguredThreshold(config)
                M == Median(inv[p].recon_errors)
            IN ae_threshold = IF M > 2 * T0 THEN Percentile85(inv[p].recon_errors)
                              ELSE T0

-----------------------------------------------------------------------------
(* C5: invocations in one process are independent: for the same batch,     *)
(* model outputs and configuration an invocation yields the same working   *)
(* threshold, severities, counts and status whatever earlier invocations   *)
(* processed, that is, what the first invocation of a fresh process        *)
(* yields for them.                                                        *)

\* the working threshold of the first invocation of a process for the batch
\* of invocation p
FreshThreshold(p) ==
    IF ae_ready
    THEN AdaptiveThreshold(inv[p].recon_errors, ConfiguredThreshold(config))
    ELSE ConfiguredThreshold(config)

\* its severities
FreshSeverities(p) ==
    [i \in 1..Len(inv[p].recon_errors) |->
        ClassifySample(inv[p].recon_errors[i], inv[p].base_stats[i].current,
                       inv[p].base_stats[i].temperature, FreshThreshold(p), config)]

\* its counts
FreshCounts(p) ==
    [s \in {"critical", "high", "medium", "low"} |->
        Cardinality({i \in 1..Len(inv[p].recon_errors) : FreshSeverities(p)[i] = s})]

C5_InvocationsIndependent ==
    \A p \in Procs :
        inv[p].pc = "done" =>
            /\ WorkingThreshold(p) = FreshThreshold(p)
            /\ inv[p].severities = FreshSeverities(p)
            /\ inv[p].counts = FreshCounts(p)
            /\ inv[p].status = get_overall_status(FreshCounts(p))

-----------------------------------------------------------------------------
(* C6: under every interleaving of two concurrent invocations each one     *)
(* classifies its samples against the working threshold it derived from    *)
(* its own batch and the baseline it started from; its classification      *)
(* never reads a threshold the other invocation wrote in between.          *)
C6_ClassifiesAgainstOwnThreshold ==
    \A p \in Procs :
        (ae_ready /\ inv[p].pc \in {"classify", "render", "upload", "done"}) =>
            \A i \in 1..Len(inv[p].severities) :
                inv[p].severities[i] =
                    ClassifySample(inv[p].recon_errors[i],
                                   inv[p].base_stats[i].current,
                                   inv[p].base_stats[i].temperature,
                                   inv[p].adaptive_threshold, config)

-----------------------------------------------------------------------------
(* Rows and the records they come from *)

\* positions in the row list `rows` of the rows made from record j
RowsOf(rows, j) == {k \in 1..Len(rows) : rows[k].src = j}

\* the record is a mapping with none of 'ts', 'createdat', 'date'
NoTimestampField(item) ==
    /\ IsMapping(item)
    /\ item.ts = Absent
    /\ item.createdat = Absent
    /\ item.date = Absent

\* the record carries a measurement the transform loop can extract
HasMeasurement(item) ==
    /\ IsMapping(item)
    /\ \/ ExtractMeasurements(item).current_value # PyNone
       \/ ExtractMeasurements(item).temperature_value # PyNone

-----------------------------------------------------------------------------
(* C7: a record with none of the timestamp fields 'ts', 'createdat',       *)
(* 'date' never yields a row, whatever payload it carries: none in the     *)
(* transformed list, none in BaseStats.                                    *)
C7_NoTimestampNoSample ==
    \A j \in 1..Len(items) :
        NoTimestampField(items[j]) =>
            /\ RowsOf(transformed_items, j) = {}
            /\ RowsOf(bf_result.base_stats, j) = {}

\* build_features returned for a batch holding a record without timestamp
\* field but with extractable measurements
C7_Witness ==
    /\ bf_pc = "done"
    /\ \E j \in 1..Len(items) :
          NoTimestampField(items[j]) /\ HasMeasurement(items[j])

-----------------------------------------------------------------------------
(* C8: the timestamp of a row is the record's 'ts' whenever 'ts' is        *)
(* present; otherwise the epoch seconds of 'createdat'; otherwise those of *)
(* 'date'.  A record whose chosen ISO field does not parse is dropped, it  *)
(* alone: every other consumed record with a resolvable timestamp has its  *)
(* row.                                                                    *)

\* the timestamp field the priority selects
ChosenField(item) ==
    IF item.ts # Absent THEN "ts"
    ELSE IF item.createdat # Absent THEN "createdat"
    ELSE IF item.date # Absent THEN "date"
    ELSE "none"

\* consumed records, when no record has raised
Consumed == IF bf_result.err = "TypeError" THEN {} ELSE 1..item_idx

C8_TimestampPriority ==
    \A j \in Consumed :
        IsMapping(items[j]) =>
            LET item == items[j]
                rows == RowsOf(transformed_items, j)
                f == ChosenField(item)
                iso == IF f = "createdat" THEN item.createdat ELSE item.date
            IN IF f = "ts"
               THEN \E k \in rows : rows = {k} /\ transformed_items[k].ts = item.ts
               ELSE IF f = "none" THEN rows = {}
               ELSE IF IsoToEpoch(iso) = PyNone THEN rows = {}
               ELSE \E k \in rows :
                       rows = {k} /\ transformed_items[k].ts = IsoToEpoch(iso)

\* build_features returned for a batch in which a record's 'createdat' does
\* not parse (its 'date' would): that record has no row, the rows of the other
\* records are all there
C8_Witness ==
    /\ bf_pc = "done"
    /\ \E j \in 1..Len(items) :
          /\ IsMapping(items[j])
          /\ ChosenField(items[j]) = "createdat"
          /\ IsoToEpoch(items[j].createdat) = PyNone
          /\ IsoToEpoch(items[j].date) # PyNone
          /\ RowsOf(bf_result.base_stats, j) = {}
    /\ Len(bf_result.base_stats) = Len(items) - 1

-----------------------------------------------------------------------------
(* C9: a record with a resolvable timestamp and no resolution path for     *)
(* either measurement (no 'payload' list, no meterValue, no sampledValue   *)
(* entry for current or temperature) yields no row, rather than a row      *)
(* carrying both defaults.                                                 *)

\* the payload is missing, no list, or an empty list
NoMeasurementPath(item) ==
    \/ item.payload = Absent
    \/ item.payload.k # "list"
    \/ item.payload.v = <<>>

C9_NoMeasurementPathNoSample ==
    \A j \in Consumed :
        (IsMapping(items[j]) /\ NoMeasurementPath(items[j])) =>
            RowsOf(transformed_items, j) = {}

-----------------------------------------------------------------------------
(* C10: when several sampledValue entries of a record match                *)
(* "Current.Import" (respectively "Temperature"), the row carries the      *)
(* value of the first matching entry in payload order.                     *)

\* measurand and value of entry a of a well-formed sampledValue list
MeasurandOf(sl, a) == sl[a].v[1].Value.s
ValueOf(sl, a) == sl[a].v[2].Value

\* the entries of sl whose measurand names the current, the temperature
CurrentEntries(sl) ==
    {a \in 1..Len(sl) : Contains("Current.Import", MeasurandOf(sl, a))}
TemperatureEntries(sl) ==
    {a \in 1..Len(sl) : ~Contains("Current.Import", MeasurandOf(sl, a))
                        /\ Contains("Temperature", MeasurandOf(sl, a))}

\* the least element of a set of positions
First(S) == CHOOSE a \in S : \A b \in S : a <= b

\* several entries match and the first of them holds a number
SeveralWithFirstNumber(sl, entries) ==
    /\ Cardinality(entries) > 1
    /\ ValueOf(sl, First(entries)).k = "str"
    /\ Float(ValueOf(sl, First(entries)).s).k = "num"

C10_FirstMatchWins ==
    \A k \in 1..Len(transformed_items) : \A sl \in SampleLists :
        items[transformed_items[k].src].payload = Payload(sl) =>
            /\ SeveralWithFirstNumber(sl, CurrentEntries(sl)) =>
                  transformed_items[k].current =
                      Float(ValueOf(sl, First(CurrentEntries(sl))).s)
            /\ SeveralWithFirstNumber(sl, TemperatureEntries(sl)) =>
                  transformed_items[k].temperature =
                      Float(ValueOf(sl, First(TemperatureEntries(sl))).s)

-----------------------------------------------------------------------------
(* C11: in a kept record, a measurement the payload does not contain takes *)
(* its default (current 0.0, temperature 50.0) and a measurement whose     *)
(* single entry parses is carried through unchanged; the default of one    *)
(* measurement never replaces the other, extracted one.                    *)

\* the timestamp field the priority selects yields a timestamp
TimestampResolves(item) ==
    \/ ChosenField(item) = "ts"
    \/ ChosenField(item) = "createdat" /\ IsoToEpoch(item.createdat) # PyNone
    \/ ChosenField(item) = "date" /\ IsoToEpoch(item.date) # PyNone

\* the payload of the record is a well-formed one, and its sampledValue list
WellFormedPayloads == {Payload(sl) : sl \in SampleLists}
WellFormed(item) == IsMapping(item) /\ item.payload \in WellFormedPayloads
SampleListOf(item) == item.payload.v[1].Value.v[1].v[1].Value.v

\* the only entry of `entries` holds a text that float() accepts
SingleParsing(sl, entries) ==
    /\ Cardinality(entries) = 1
    /\ ValueOf(sl, First(entries)).k = "str"
    /\ Float(Strip(ValueOf(sl, First(entries)).s)) # PyNone

\* the value the row must carry for a measurement with the entries
\* `entries`; Absent where this property says nothing
CarriedOrDefault(sl, entries, default) ==
    IF entries = {} THEN Num(default)
    ELSE IF SingleParsing(sl, entries)
    THEN Float(Strip(ValueOf(sl, First(entries)).s))
    ELSE Absent

C11_DefaultOnlyForMissing ==
    \A k \in 1..Len(transformed_items) :
        LET item == items[transformed_items[k].src]
        IN /\ NoMeasurementPath(item) =>
                 /\ transformed_items[k].current = Num(0)
                 /\ transformed_items[k].temperature = Num(50)
           /\ WellFormed(item) =>
                 LET sl == SampleListOf(item)
                     c == CarriedOrDefault(sl, CurrentEntries(sl), 0)
                     t == CarriedOrDefault(sl, TemperatureEntries(sl), 50)
                 IN /\ c # Absent => transformed_items[k].current = c
                    /\ t # Absent => transformed_items[k].temperature = t

\* a kept record whose payload holds a current and no temperature: the row
\* carries the current and the default temperature
C11_Witness ==
    \E k \in 1..Len(transformed_items) : \E sl \in SampleLists :
        /\ items[transformed_items[k].src].payload = Payload(sl)
        /\ SingleParsing(sl, CurrentEntries(sl))
        /\ TemperatureEntries(sl) = {}
        /\ transformed_items[k].current # Num(0)
        /\ transformed_items[k].temperature = Num(50)

-----------------------------------------------------------------------------
(* C12: build_features raises whenever fewer than 3 samples survive        *)
(* extraction and NaN-drop, the empty input list and zero survivors        *)
(* included, and never returns a matrix with fewer than 3 rows.            *)

\* the rows of the transform loop that survive to_numeric and dropna
Survivors ==
    {k \in 1..Len(transformed_items) : HasNoNaN(NumericRow(transformed_items[k]))}

\* the call has ended
Ended == bf_pc \in {"done", "raised"}

C12_RaisesBelowThreeSamples ==
    /\ (Ended /\ Cardinality(Survivors) < 3) =>
           (bf_pc = "raised" /\ bf_result.err # "")
    /\ (Ended /\ items = <<>>) => bf_result.err = "No data points available"
    /\ bf_pc = "done" =>
           /\ Len(bf_result.X) >= 3
           /\ Len(bf_result.base_stats) >= 3

\* two samples survived (a third row was dropped for its NaN) and the call
\* raised for the lack of data points
C12_Witness ==
    /\ bf_pc = "raised"
    /\ Cardinality(Survivors) = 2
    /\ Len(transformed_items) = 3
    /\ bf_result.err = "Not enough data points to compute features"

-----------------------------------------------------------------------------
(* C13: a malformed record is never fatal to the batch: whenever at least  *)
(* 3 records of the input list are valid, build_features returns, whatever *)
(* the other records are (a record that is no mapping included), and the   *)
(* rows it returns are those of the valid records.                         *)

\* the record yields a sample: a mapping with a resolvable timestamp whose
\* three values are numbers
ValidRecord(item) ==
    /\ IsMapping(item)
    /\ Transform(item, 0) # Absent
    /\ HasNoNaN(NumericRow(Transform(item, 0)))

C13_MalformedNeverFatal ==
    (Ended /\ Cardinality({j \in 1..Len(items) : ValidRecord(items[j])}) >= 3) =>
        /\ bf_pc = "done"
        /\ \A j \in 1..Len(items) :
              ValidRecord(items[j]) <=> RowsOf(bf_result.base_stats, j) # {}

-----------------------------------------------------------------------------
(* C14: whenever at least 3 samples survive and build_features returns,    *)
(* the matrix has one row per surviving sample and one column per name of  *)
(* feature_names, column j holding the feature feature_names[j], and no    *)
(* entry of the matrix is NaN or infinite.                                 *)

\* the entry is a finite number (an entry pandas' window arithmetic leaves
\* undetermined is given the benefit of the doubt)
FiniteEntry(c) == c.k \in {"q", "sqrt", "quot", "undetermined"}

\* the raw column `name` of BaseStats at row i is what the matrix holds
HoldsRaw(i, j, name) ==
    feature_names[j] = name =>
        \/ bf_result.X[i][j] = Q(bf_result.base_stats[i][name], 1)
        \/ IsInf(bf_result.base_stats[i][name])

C14_MatrixShapeAndFinite ==
    bf_pc = "done" =>
        /\ Len(bf_result.X) = Cardinality(Survivors)
        /\ \A i \in 1..Len(bf_result.X) :
              /\ Len(bf_result.X[i]) = Len(feature_names)
              /\ \A j \in 1..Len(feature_names) :
                    /\ HoldsRaw(i, j, "current")
                    /\ HoldsRaw(i, j, "temperature")
                    /\ FiniteEntry(bf_result.X[i][j])

-----------------------------------------------------------------------------
(* C15: when a name of feature_names is no column build_features derives,  *)
(* the call never returns a matrix; once the feature derivation is reached *)
(* (3 or more surviving samples) it fails with the error that lists        *)
(* exactly the missing names, in the order of feature_names.  A matrix     *)
(* that is returned has a column for every name.                           *)

\* positions of feature_names that name no derived column
UnknownPositions == {j \in 1..Len(feature_names) : feature_names[j] \notin DfColumns}

\* the sequence s lists exactly the names at the positions P, in order
ListsExactly(s, P) ==
    /\ Len(s) = Cardinality(P)
    /\ \A a \in 1..Len(s) :
          \E j \in P : /\ s[a] = feature_names[j]
                       /\ Cardinality({b \in P : b < j}) = a - 1

C15_UnknownFeatureFails ==
    /\ (Ended /\ UnknownPositions # {}) =>
          /\ bf_pc = "raised"
          /\ bf_result.X = <<>>
          /\ (Cardinality(Survivors) >= 3 /\ bf_result.err # "TypeError") =>
                /\ bf_result.err = "Missing required features"
                /\ ListsExactly(bf_result.missing, UnknownPositions)
    /\ bf_pc = "done" =>
          \A i \in 1..Len(bf_result.X) : Len(bf_result.X[i]) = Len(feature_names)

\* six samples survived and the call failed naming "voltage" and "soc"
C15_Witness ==
    /\ bf_pc = "raised"
    /\ Cardinality(Survivors) = 6
    /\ bf_result.missing = <<"voltage", "soc">>

-----------------------------------------------------------------------------
(* C16: extraction keeps a record whose parsed current is negative and     *)
(* leaves the value as it is; after build_features every current of        *)
(* BaseStats, and of the matrix's current column, is max(0, parsed         *)
(* current), hence not negative.                                           *)

\* the single current entry of the record parses to a negative number
NegativeCurrent(item, sl) ==
    /\ SingleParsing(sl, CurrentEntries(sl))
    /\ Float(Strip(ValueOf(sl, First(CurrentEntries(sl))).s)).k = "num"
    /\ Float(Strip(ValueOf(sl, First(CurrentEntries(sl))).s)).n < 0

\* the current the transform loop stored for the record of BaseStats row i
ParsedCurrent(i) ==
    LET k == CHOOSE k \in 1..Len(transformed_items) :
                 transformed_items[k].src = bf_result.base_stats[i].src
    IN ToNumeric(transformed_items[k].current).n

C16_ClampAtBatchLevel ==
    /\ \A j \in Consumed :
          (/\ WellFormed(items[j])
           /\ TimestampResolves(items[j])
           /\ NegativeCurrent(items[j], SampleListOf(items[j]))) =>
              LET sl == SampleListOf(items[j])
              IN \E k \in RowsOf(transformed_items, j) :
                    transformed_items[k].current =
                        Float(Strip(ValueOf(sl, First(CurrentEntries(sl))).s))
    /\ bf_pc = "done" =>
          \A i \in 1..Len(bf_result.base_stats) :
              /\ bf_result.base_stats[i].current >= 0
              /\ bf_result.base_stats[i].current = Max(0, ParsedCurrent(i))
              /\ \A j \in 1..Len(feature_names) :
                    feature_names[j] = "current" =>
                        bf_result.X[i][j] = Q(Max(0, ParsedCurrent(i)), 1)

\* build_features returned a batch with a record whose current parsed to a
\* negative number: its row carries the current 0
C16_Witness ==
    /\ bf_pc = "done"
    /\ \E i \in 1..Len(bf_result.base_stats) :
          /\ ParsedCurrent(i) < 0
          /\ bf_result.base_stats[i].current = 0
    /\ \E j \in 1..Len(feature_names) : feature_names[j] = "current"

-----------------------------------------------------------------------------
(* C17: the window of the rolling mean, std, min and max of a batch of n   *)
(* surviving samples is max(2, min(ROLL_WIN, floor(n / 3))): each rolling  *)
(* cell is the mean (std, min, max) of the rows of that window ending at   *)
(* its row.  For n = 6 and ROLL_WIN = 5 the window is 2.                   *)

\* the rows a window of the claimed width covers at row i of n rows
ClaimedWindow(i, n) ==
    LET third == n \div 3
        inner == IF ROLL_WIN <= third THEN ROLL_WIN ELSE third
        w == IF inner >= 2 THEN inner ELSE 2
    IN {a \in 1..i : a > i - w}

RECURSIVE SumOver(_, _, _)
SumOver(stats, col, S) ==
    IF S = {} THEN 0
    ELSE LET a == CHOOSE a \in S : TRUE
         IN stats[a][col] + SumOver(stats, col, S \ {a})

RECURSIVE SumSquaresOver(_, _, _)
SumSquaresOver(stats, col, S) ==
    IF S = {} THEN 0
    ELSE LET a == CHOOSE a \in S : TRUE
         IN stats[a][col] * stats[a][col] + SumSquaresOver(stats, col, S \ {a})

\* c is the sample standard deviation of the rows W of column col: c^2 times
\* |W| (|W| - 1) is |W| sum(x^2) - sum(x)^2; 0 (the filled NaN) for one row
IsSampleStd(c, stats, col, W) ==
    LET n == Cardinality(W)
    IN IF n < 2 THEN c = Q(0, 1)
       ELSE /\ c.k \in {"q", "sqrt"}
            /\ (c.k = "q") => c = Q(0, 1)
            /\ c.n * n * (n - 1) =
                  c.d * (n * SumSquaresOver(stats, col, W)
                         - SumOver(stats, col, W) * SumOver(stats, col, W))

\* no infinite value at or above row i
FiniteUpTo(stats, i, col) == \A a \in 1..i : ~IsInf(stats[a][col])

\* the cell of column j at row i is the rolling statistic `name` of the
\* raw column col over the claimed window
RollingCell(i, j, name, col) ==
    LET stats == bf_result.base_stats
        W == ClaimedWindow(i, Len(stats))
        c == bf_result.X[i][j]
    IN (feature_names[j] = name /\ FiniteUpTo(stats, i, col)) =>
          CASE name \in {"current_roll_mean", "temperature_roll_mean"} ->
                  c.k = "q" /\ c.n * Cardinality(W) = SumOver(stats, col, W) * c.d
            [] name = "current_roll_std" -> IsSampleStd(c, stats, col, W)
            [] name = "current_roll_min" ->
                  /\ \E a \in W : c = Q(stats[a][col], 1)
                  /\ \A a \in W : c.n <= stats[a][col] * c.d
            [] name = "current_roll_max" ->
                  /\ \E a \in W : c = Q(stats[a][col], 1)
                  /\ \A a \in W : c.n >= stats[a][col] * c.d

C17_AdaptiveRollingWindow ==
    bf_pc = "done" =>
        \A i \in 1..Len(bf_result.X) : \A j \in 1..Len(feature_names) :
            /\ RollingCell(i, j, "current_roll_mean", "current")
            /\ RollingCell(i, j, "temperature_roll_mean", "temperature")
            /\ RollingCell(i, j, "current_roll_std", "current")
            /\ RollingCell(i, j, "current_roll_min", "current")
            /\ RollingCell(i, j, "current_roll_max", "current")

\* six samples, ROLL_WIN = 5: a rolling mean of the current is the mean of
\* two rows and differs from the mean of the five rows ending at its row
C17_Witness ==
    /\ bf_pc = "done"
    /\ Len(bf_result.X) = 6
    /\ ROLL_WIN = 5
    /\ \E j \in 1..Len(feature_names) :
          /\ feature_names[j] = "current_roll_mean"
          /\ FiniteUpTo(bf_result.base_stats, 6, "current")
          /\ bf_result.X[6][j] =
                Q(bf_result.base_stats[5].current + bf_result.base_stats[6].current, 2)
          /\ bf_result.X[6][j] # Q(SumOver(bf_result.base_stats, "current", 2..6), 5)

-----------------------------------------------------------------------------
(* C18: end to end, a batch in which every reconstruction error is at or   *)
(* below the configured baseline threshold yields the counts 0/0/0/0 and   *)
(* the status "Stable", whatever the currents, the temperatures and the    *)
(* outlier flags of its samples are.                                       *)

\* invocation p has classified its batch and resolved the status
Resolved(p) == inv[p].pc \in {"render", "upload", "done"}

\* every reconstruction error of p's batch is at or below the baseline
AllAtOrBelowBaseline(p) ==
    \A i \in 1..Len(inv[p].recon_errors) :
        inv[p].recon_errors[i] <= ConfiguredThreshold(config)

C18_NominalBatchIsStable ==
    \A p \in Procs :
        (Resolved(p) /\ AllAtOrBelowBaseline(p)) =>
            /\ inv[p].counts = ZeroCounts
            /\ inv[p].status = "Stable"
            /\ \A i \in 1..Len(inv[p].severities) : inv[p].severities[i] = "normal"

\* a resolved batch with the autoencoder at work, every error at or below a
\* positive baseline, one sample at the baseline with a temperature in the
\* critical range and flagged by the isolation forest
C18_Witness ==
    \E p \in Procs :
        /\ Resolved(p)
        /\ ae_ready
        /\ ConfiguredThreshold(config) > 0
        /\ AllAtOrBelowBaseline(p)
        /\ \E i \in 1..Len(inv[p].recon_errors) :
              /\ inv[p].recon_errors[i] = ConfiguredThreshold(config)
              /\ inv[p].iso_preds[i] = -1
              /\ inv[p].base_stats[i].temperature >= 80
        /\ \E i \in 1..Len(inv[p].recon_errors) : inv[p].recon_errors[i] = 0

-----------------------------------------------------------------------------
(* C19: when the value of a matched measurand cannot be parsed as a        *)
(* number, the record is still kept and that field of its row is the       *)
(* default: 0.0 for the current, 50.0 for the temperature.                 *)

\* the measurement has entries and the value of none of them parses
Unparsable(sl, entries) ==
    /\ entries # {}
    /\ \A a \in entries :
          \/ ValueOf(sl, a).k # "str"
          \/ Float(Strip(ValueOf(sl, a).s)) = PyNone

C19_ParseFailureFallsBack ==
    \A j \in Consumed :
        (WellFormed(items[j]) /\ TimestampResolves(items[j])) =>
            LET sl == SampleListOf(items[j])
            IN /\ Unparsable(sl, CurrentEntries(sl)) =>
                     \E k \in RowsOf(transformed_items, j) :
                         transformed_items[k].current = Num(0)
               /\ Unparsable(sl, TemperatureEntries(sl)) =>
                     \E k \in RowsOf(transformed_items, j) :
                         transformed_items[k].temperature = Num(50)

\* a kept record whose current is the text "abc": its row carries the
\* default current and the temperature that was extracted
C19_Witness ==
    \E k \in 1..Len(transformed_items) : \E sl \in SampleLists :
        /\ items[transformed_items[k].src].payload = Payload(sl)
        /\ Unparsable(sl, CurrentEntries(sl))
        /\ \E a \in CurrentEntries(sl) : ValueOf(sl, a) = Str("abc")
        /\ transformed_items[k].current = Num(0)
        /\ transformed_items[k].temperature = Num(75)

-----------------------------------------------------------------------------
(* C20: the rows of BaseStats and of the matrix are in ascending order of  *)
(* timestamp and the order is stable: samples with equal timestamps keep   *)
(* the relative order of their records in the input list.                  *)

C20_StableTimestampOrder ==
    bf_pc = "done" =>
        \A a, b \in 1..Len(bf_result.base_stats) :
            a < b =>
                /\ bf_result.base_stats[a].ts <= bf_result.base_stats[b].ts
                /\ bf_result.base_stats[a].ts = bf_result.base_stats[b].ts =>
                      bf_result.base_stats[a].src < bf_result.base_stats[b].src

-----------------------------------------------------------------------------
(* C21: when build_features returns, the row classify_anomalies reads for  *)
(* sample i (base_stats.loc[i]) and row i of the feature matrix come from  *)
(* the same record, the i-th in timestamp order, whatever the order of the *)
(* records in the input: both carry that record's clipped current and its  *)
(* temperature.                                                            *)

\* the float v as a cell of the matrix
AsCell(v) == IF IsInf(v) THEN PosInf ELSE Q(v, 1)

\* the row the transform loop stored for the record a row of BaseStats names
StoredFor(row) ==
    transformed_items[CHOOSE k \in 1..Len(transformed_items) :
                          transformed_items[k].src = row.src]

\* matrix row i holds the current c and the temperature t
MatrixRowHolds(i, c, t) ==
    \A j \in 1..Len(feature_names) :
        /\ feature_names[j] = "current" => bf_result.X[i][j] = AsCell(c)
        /\ feature_names[j] = "temperature" => bf_result.X[i][j] = AsCell(t)

C21_RowsAlignedWithMatrix ==
    bf_pc = "done" =>
        /\ Len(bf_result.base_stats) = Len(bf_result.X)
        /\ \A i \in 1..Len(bf_result.X) :
              LET row == Loc(bf_result.base_stats, i - 1)
              IN /\ row # Absent
                 /\ \A a \in 1..(i - 1) :
                       /\ Loc(bf_result.base_stats, a - 1).ts <= row.ts
                       /\ Loc(bf_result.base_stats, a - 1).src # row.src
                 /\ row.current = Max(0, ToNumeric(StoredFor(row).current).n)
                 /\ row.temperature = ToNumeric(StoredFor(row).temperature).n
                 /\ MatrixRowHolds(i, Max(0, ToNumeric(StoredFor(row).current).n),
                                   ToNumeric(StoredFor(row).temperature).n)

\* build_features returned for a batch handed over latest first: the last
\* record of the input is sample 0, and its current differs from the current
\* of the first record of the input, which is the last sample
C21_Witness ==
    /\ bf_pc = "done"
    /\ feature_names = DefaultNames
    /\ items[1].ts.n > items[Len(items)].ts.n
    /\ Loc(bf_result.base_stats, 0).src = Len(items)
    /\ Loc(bf_result.base_stats, Len(items) - 1).src = 1
    /\ Loc(bf_result.base_stats, 0).current
          # Loc(bf_result.base_stats, Len(items) - 1).current
    /\ bf_result.X[1][1] = AsCell(Loc(bf_result.base_stats, 0).current)

-----------------------------------------------------------------------------
(* C22: when build_features returns, the rate columns (current_rate,       *)
(* temperature_rate) and the elapsed-time column of the matrix are 0 in    *)
(* the first row and in every row whose timestamp equals that of the row   *)
(* before it; in every other row the elapsed time is positive and the rate *)
(* is the first difference divided by it.                                  *)

\* the raw column a rate column is computed from
RateColumns == [current_rate |-> "current", temperature_rate |-> "temperature"]

\* no time has elapsed at row i of BaseStats
NoElapsedTime(stats, i) == i = 1 \/ stats[i].ts = stats[i - 1].ts

\* the cell c is the quotient num / den of two integers, den > 0
IsQuotient(c, num, den) == c.k = "q" /\ c.n * den = num * c.d

C22_ZeroElapsedTimeGivesZeroRate ==
    bf_pc = "done" =>
        LET stats == bf_result.base_stats
        IN \A i \in 1..Len(stats) : \A j \in 1..Len(feature_names) :
              /\ feature_names[j] = "delta_t" =>
                    IF NoElapsedTime(stats, i)
                    THEN bf_result.X[i][j] = Q(0, 1)
                    ELSE /\ stats[i].ts > stats[i - 1].ts
                         /\ bf_result.X[i][j] = Q(stats[i].ts - stats[i - 1].ts, 1)
              /\ feature_names[j] \in DOMAIN RateColumns =>
                    LET col == RateColumns[feature_names[j]]
                    IN IF NoElapsedTime(stats, i)
                       THEN bf_result.X[i][j] = Q(0, 1)
                       ELSE (~IsInf(stats[i][col]) /\ ~IsInf(stats[i - 1][col])) =>
                               IsQuotient(bf_result.X[i][j],
                                          stats[i][col] - stats[i - 1][col],
                                          stats[i].ts - stats[i - 1].ts)

\* build_features returned a batch in which two consecutive samples share
\* their timestamp and differ in current and temperature, so both rates
\* would divide by zero, and a later sample has a non-zero current rate
C22_Witness ==
    /\ bf_pc = "done"
    /\ \E j \in 1..Len(feature_names) : feature_names[j] = "current_rate"
    /\ \E i \in 2..Len(bf_result.base_stats) :
          /\ bf_result.base_stats[i].ts = bf_result.base_stats[i - 1].ts
          /\ bf_result.base_stats[i].current # bf_result.base_stats[i - 1].current
          /\ bf_result.base_stats[i].temperature
                # bf_result.base_stats[i - 1].temperature
          /\ \A j \in 1..Len(feature_names) :
                feature_names[j] \in {"current_rate", "temperature_rate"} =>
                    bf_result.X[i][j] = Q(0, 1)
    /\ \E i \in 2..Len(bf_result.base_stats) : \E j \in 1..Len(feature_names) :
          /\ feature_names[j] = "current_rate"
          /\ bf_result.X[i][j] = Q(3, 10)

-----------------------------------------------------------------------------
(* C23: when build_features returns, every entry of the percent-change     *)
(* columns of the matrix is a finite number: 0 in the first row, 0 in a    *)
(* row whose previous value is 0 (for a non-zero and for a zero value of   *)
(* the row itself), and (value - previous) / previous in every other row.  *)

\* the raw column a percent-change column is computed from
PctColumns ==
    [current_pct_change |-> "current", temperature_pct_change |-> "temperature"]

C23_PercentChangeIsFinite ==
    bf_pc = "done" =>
        LET stats == bf_result.base_stats
        IN \A i \in 1..Len(stats) : \A j \in 1..Len(feature_names) :
              feature_names[j] \in DOMAIN PctColumns =>
                 LET col == PctColumns[feature_names[j]]
                     c == bf_result.X[i][j]
                 IN /\ c.k = "q"
                    /\ i = 1 => c = Q(0, 1)
                    /\ (i > 1 /\ stats[i - 1][col] = 0) => c = Q(0, 1)
                    /\ (/\ i > 1
                        /\ stats[i - 1][col] # 0
                        /\ ~IsInf(stats[i][col])
                        /\ ~IsInf(stats[i - 1][col])) =>
                           c.n * stats[i - 1][col]
                              = (stats[i][col] - stats[i - 1][col]) * c.d

\* build_features returned a batch with a positive current after a current
\* of 0 (x / 0), a current of 0 after a current of 0 (0 / 0), a temperature
\* after a temperature of 0, and a current of 100 after a current of 3
C23_Witness ==
    /\ bf_pc = "done"
    /\ \E j \in 1..Len(feature_names) : feature_names[j] = "current_pct_change"
    /\ \E j \in 1..Len(feature_names) : feature_names[j] = "temperature_pct_change"
    /\ LET stats == bf_result.base_stats
       IN /\ \E i \in 2..Len(stats) :
                stats[i - 1].current = 0 /\ stats[i].current = 3
          /\ \E i \in 2..Len(stats) :
                stats[i - 1].current = 0 /\ stats[i].current = 0
          /\ \E i \in 2..Len(stats) :
                stats[i - 1].temperature = 0 /\ stats[i].temperature = 75
          /\ \E i \in 2..Len(stats) : \E j \in 1..Len(feature_names) :
                /\ feature_names[j] = "current_pct_change"
                /\ stats[i - 1].current = 3
                /\ bf_result.X[i][j] = Q(97, 3)

-----------------------------------------------------------------------------
(* C24: when build_features returns, a volatility entry of the matrix is   *)
(* the standard deviation of exactly the ROLL_WIN rows ending at its row,  *)
(* whatever the adaptive window is, divided by the rolling mean over the   *)
(* adaptive window; it is 0 in a row with fewer than ROLL_WIN rows up to   *)
(* and including itself, and 0 in a row whose rolling mean is 0.           *)

\* the raw column a volatility column is computed from
VolColumns ==
    [current_volatility |-> "current", temperature_volatility |-> "temperature"]

\* the ROLL_WIN rows ending at row i
FixedWindow(i) == {a \in 1..i : a > i - ROLL_WIN}

C24_VolatilityUsesFixedWindow ==
    bf_pc = "done" =>
        LET stats == bf_result.base_stats
        IN \A i \in 1..Len(stats) : \A j \in 1..Len(feature_names) :
              (/\ feature_names[j] \in DOMAIN VolColumns
               /\ FiniteUpTo(stats, i, VolColumns[feature_names[j]])) =>
                 LET col == VolColumns[feature_names[j]]
                     W == ClaimedWindow(i, Len(stats))
                     c == bf_result.X[i][j]
                 IN /\ i < ROLL_WIN => c = Q(0, 1)
                    /\ SumOver(stats, col, W) = 0 => c = Q(0, 1)
                    /\ (i >= ROLL_WIN /\ SumOver(stats, col, W) # 0) =>
                          IF c.k = "quot"
                          THEN /\ c.num.k = "sqrt"
                               /\ IsSampleStd(c.num, stats, col, FixedWindow(i))
                               /\ c.den.k = "q"
                               /\ c.den.n * Cardinality(W)
                                     = SumOver(stats, col, W) * c.den.d
                          ELSE /\ c = Q(0, 1)
                               /\ IsSampleStd(c, stats, col, FixedWindow(i))

\* six samples, ROLL_WIN = 5, adaptive window 2: the currents of the first
\* four rows differ and their volatility is 0; row 5 has the rolling mean 0
\* over currents that are not all equal, and the volatility 0; row 6 has a
\* volatility that is not 0
C24_Witness ==
    /\ bf_pc = "done"
    /\ ROLL_WIN = 5
    /\ Len(bf_result.base_stats) = 6
    /\ \E j \in 1..Len(feature_names) :
          /\ feature_names[j] = "current_volatility"
          /\ bf_result.base_stats[1].current # bf_result.base_stats[4].current
          /\ \A i \in 1..4 : bf_result.X[i][j] = Q(0, 1)
          /\ bf_result.base_stats[4].current = 0
          /\ bf_result.base_stats[5].current = 0
          /\ bf_result.X[5][j] = Q(0, 1)
          /\ bf_result.X[6][j].k = "quot"

-----------------------------------------------------------------------------
(* C25: the outlier flags do not influence the classification: once an     *)
(* invocation has resolved its status, every sample gets the severity the  *)
(* invocation holds for it under either outlier flag, and                  *)
(* classify_anomalies called with the same reconstruction errors,          *)
(* BaseStats, working threshold and thresholds and with every flag the     *)
(* other way round returns the severities and the counts the invocation    *)
(* holds, and get_overall_status of them is its status.                    *)

\* the outlier flags of invocation p, each the other way round
Flipped(p) == [i \in 1..Len(inv[p].iso_preds) |-> -inv[p].iso_preds[i]]

C25_OutlierFlagNotLoadBearing ==
    \A p \in Procs :
        Resolved(p) =>
            /\ \A i \in 1..Len(inv[p].recon_errors) : \A iso_pred \in {-1, 1} :
                  ClassifyIteration(inv[p].recon_errors[i], iso_pred,
                                    Loc(inv[p].base_stats, i - 1).current,
                                    Loc(inv[p].base_stats, i - 1).temperature,
                                    WorkingThreshold(p), config)
                     = inv[p].severities[i]
            /\ LET other == classify_anomalies(inv[p].recon_errors, Flipped(p),
                                                inv[p].base_stats,
                                                WorkingThreshold(p), config)
               IN /\ other.severities = inv[p].severities
                  /\ other.counts = inv[p].counts
                  /\ get_overall_status(other.counts) = inv[p].status

\* a resolved batch in which a sample flagged as an outlier is normal and a
\* sample not flagged is anomalous, so that swapping the flags would matter
\* to a classifier that read them
C25_Witness ==
    \E p \in Procs :
        /\ Resolved(p)
        /\ \E i \in 1..Len(inv[p].severities) :
              inv[p].iso_preds[i] = -1 /\ inv[p].severities[i] = "normal"
        /\ \E i \in 1..Len(inv[p].severities) :
              inv[p].iso_preds[i] = 1 /\ inv[p].severities[i] # "normal"
        /\ inv[p].status # "Stable"

-----------------------------------------------------------------------------
(* C26: for the sample the loop of classify_anomalies has just classified *)
(* (every sample in its turn), classifying it again with the same          *)
(* reconstruction error, working threshold, thresholds and current, and    *)
(* with any temperature at or above the upper critical temperature, gives  *)
(* a severity that is not lower in normal < low < medium < high <          *)
(* critical: critical if the sample is anomalous, normal if it is not.     *)

SeverityRank(severity) ==
    CASE severity = "normal" -> 0
      [] severity = "low" -> 1
      [] severity = "medium" -> 2
      [] severity = "high" -> 3
      [] severity = "critical" -> 4

\* temperatures at and above the upper critical temperature of the config
CriticalTemperatures(cfg) ==
    {ThrGet(cfg.temperature_thresholds, "upper_critical", 80) + d : d \in {0, 1, 40}}

C26_RaisingTemperatureNeverLowersSeverity ==
    \A p \in Procs :
        (inv[p].pc = "classify" /\ inv[p].severities # <<>>) =>
            LET i == Len(inv[p].severities)
                curr == Loc(inv[p].base_stats, i - 1).current
                severity == inv[p].severities[i]
            IN \A temp \in CriticalTemperatures(config) :
                  LET raised == ClassifyIteration(inv[p].recon_errors[i],
                                                  inv[p].iso_preds[i], curr, temp,
                                                  WorkingThreshold(p), config)
                  IN /\ SeverityRank(raised) >= SeverityRank(severity)
                     /\ severity = "normal" => raised = "normal"
                     /\ severity # "normal" => raised = "critical"

\* the loop has classified a sample as medium and, last, a sample as
\* normal, both below the upper critical temperature
C26_Witness ==
    \E p \in Procs :
        /\ inv[p].pc = "classify"
        /\ inv[p].severities # <<>>
        /\ inv[p].severities[Len(inv[p].severities)] = "normal"
        /\ \E i \in 1..Len(inv[p].severities) :
              /\ inv[p].severities[i] = "medium"
              /\ \A temp \in CriticalTemperatures(config) :
                    Loc(inv[p].base_stats, i - 1).temperature < temp
        /\ \E i \in 1..Len(inv[p].severities) :
              /\ inv[p].severities[i] = "normal"
              /\ \A temp \in CriticalTemperatures(config) :
                    Loc(inv[p].base_stats, i - 1).temperature < temp

-----------------------------------------------------------------------------
(* C27: within one invocation of run_inference_pipeline the stages happen  *)
(* at most once each and in the order fetch, build features, scale and     *)
(* score, outlier flags, classify, resolve status, render, upload; an      *)
(* invocation in which the fetch, the feature build or the scoring has     *)
(* raised has left run_inference_pipeline with the exception, without a    *)
(* classification or a status, and its only next step is the caller's.     *)

\* the positions of an invocation that has not raised, in program order
StageOrder ==
    <<"idle", "fetched", "built", "scored", "forest", "classify", "render",
      "upload", "done">>

Position(pc) == CHOOSE k \in 1..Len(StageOrder) : StageOrder[k] = pc

\* the step from position a to position b follows the program order
InOrder(a, b) ==
    \/ a \in {"done", "raised"} /\ b = "idle"
    \/ a \notin {"done", "raised"} /\ b = "raised"
    \/ a # "raised" /\ b # "raised" /\ Position(b) = Position(a) + 1
    \/ a = "built" /\ b = "forest" /\ ~ae_ready

\* the invocation with the locals l holds no result of a later stage
NothingClassified(l) ==
    /\ l.recon_errors = <<>>
    /\ l.iso_preds = <<>>
    /\ l.severities = <<>>
    /\ l.counts = ZeroCounts
    /\ l.status = ""

C27_StagesOnceAndInOrder ==
    /\ [](\A p \in Procs :
             inv[p].stage \in {"config", "fetch", "build", "score"} =>
                 inv[p].pc = "raised" /\ NothingClassified(inv[p]))
    /\ [][\A p \in Procs :
             /\ inv[p].pc # inv'[p].pc => InOrder(inv[p].pc, inv'[p].pc)
             /\ inv[p].pc # "idle" => inv'[p].items = inv[p].items \/ inv'[p].pc = "idle"
             /\ inv[p].pc \notin {"idle", "fetched"} =>
                   inv'[p].base_stats = inv[p].base_stats \/ inv'[p].pc = "idle"
             /\ Len(inv'[p].severities) <= Len(inv[p].severities) + 1]_vars

\* the scoring of an invocation raised after its features were built
C27_Witness ==
    \E p \in Procs :
        /\ inv[p].pc = "raised"
        /\ inv[p].stage = "score"
        /\ Len(inv[p].base_stats) >= 3
        /\ NothingClassified(inv[p])
        /\ started = MaxInvocations

-----------------------------------------------------------------------------
(* C28: without the reconstruction model an invocation goes on past the    *)
(* scoring step: every reconstruction error of its batch is 0, the         *)
(* threshold stays the configured one, and with a threshold that is not    *)
(* negative every sample is normal, the counts are all 0 and the status is *)
(* "Stable", whatever the currents and the temperatures are.               *)

\* invocation p is past the scoring step
Scored(p) == inv[p].pc \in {"forest", "classify", "render", "upload", "done"}

C28_DegradedModeIsStable ==
    ~ae_ready =>
        /\ ae_threshold = ConfiguredThreshold(config)
        /\ \A p \in Procs :
              /\ Scored(p) =>
                    /\ Len(inv[p].recon_errors) = Len(inv[p].base_stats)
                    /\ \A i \in 1..Len(inv[p].recon_errors) :
                          inv[p].recon_errors[i] = 0
                    /\ ae_threshold >= 0 =>
                          \A i \in 1..Len(inv[p].severities) :
                              inv[p].severities[i] = "normal"
              /\ (Resolved(p) /\ ae_threshold >= 0) =>
                    /\ inv[p].counts = ZeroCounts
                    /\ inv[p].status = "Stable"

\* a second invocation without the reconstruction model has returned its
\* result under the threshold 0, for a batch with a sample in the critical
\* temperature range that the isolation forest flagged
C28_Witness ==
    \E p \in Procs :
        /\ ~ae_ready
        /\ ae_threshold = 0
        /\ started = MaxInvocations
        /\ inv[p].pc = "done"
        /\ inv[p].status = "Stable"
        /\ \E i \in 1..Len(inv[p].severities) :
              /\ Loc(inv[p].base_stats, i - 1).temperature >= 80
              /\ inv[p].iso_preds[i] = -1

-----------------------------------------------------------------------------
(* C29: in a process that serves its invocations one after another, with a *)
(* configured baseline that is not negative, the global ae_threshold never *)
(* decreases: the only step that changes it is the threshold update of an  *)
(* invocation whose batch median is above twice the value in force, and    *)
(* that step replaces it by the 85th percentile of the batch, which is     *)
(* greater; no step sets it back to the configured baseline, also not the  *)
(* step of a render or an upload that raises.                              *)

\* invocation p takes its threshold update (line 780) in this step
UpdatesThreshold(p) == inv[p].pc = "scored" /\ inv'[p].pc = "forest"

-----------------------------------------------------------------------------
(* C30: when the threshold of a batch of n samples is its 85th percentile  *)
(* (the batch median is above twice the threshold in force), at most       *)
(* ceil(0.15 n) samples are classified as anomalous; a batch whose         *)
(* reconstruction errors are all equal has no anomalous sample and the     *)
(* status "Stable".                                                        *)

\* ceil(0.15 n), 0.15 being the share above the 85th percentile
MostAnomalous(n) == ((PctScale - Pct) * n + PctScale - 1) \div PctScale

\* the scoring of invocation p took the 85th percentile of its batch
AdaptiveBranch(p) ==
    /\ ae_ready
    /\ Median(inv[p].recon_errors) > 2 * inv[p].training_threshold

\* the samples of invocation p classified as anomalous
Anomalous(p) ==
    {i \in 1..Len(inv[p].severities) : inv[p].severities[i] # "normal"}

C30_AdaptiveBranchBoundsAnomalies ==
    \A p \in Procs :
        (Resolved(p) /\ AdaptiveBranch(p)) =>
            LET re == inv[p].recon_errors
            IN /\ Anomalous(p) = {i \in 1..Len(re) : re[i] > WorkingThreshold(p)}
               /\ Cardinality(Anomalous(p)) <= MostAnomalous(Len(re))
               /\ inv[p].counts.critical + inv[p].counts.high
                     + inv[p].counts.medium + inv[p].counts.low
                     <= MostAnomalous(Len(re))
               /\ (\A i \in 1..Len(re) : re[i] = re[1]) =>
                     /\ Anomalous(p) = {}
                     /\ inv[p].counts = ZeroCounts
                     /\ inv[p].status = "Stable"

\* a resolved batch whose errors are all above twice the threshold in force
\* and not all equal, classified against its 85th percentile: one sample of
\* three, the most the bound allows, is anomalous
C30_Witness ==
    \E p \in Procs :
        /\ Resolved(p)
        /\ AdaptiveBranch(p)
        /\ \A i \in 1..Len(inv[p].recon_errors) :
              inv[p].recon_errors[i] > 2 * inv[p].training_threshold
        /\ \E i \in 1..Len(inv[p].recon_errors) :
              inv[p].recon_errors[i] # inv[p].recon_errors[1]
        /\ Cardinality(Anomalous(p)) = MostAnomalous(Len(inv[p].recon_errors))
        /\ inv[p].status # "Stable"

====
